---- MODULE Spec2Model ----
(***************************************************************************)
(* NexusCRM plugin: the database access layer, the GraphQL resolvers, the  *)
(* voice call manager, the Vapi webhook handler and the WebSocket          *)
(* broadcast manager, as state machines.                                   *)
(*                                                                         *)
(* Each subsystem has its own specification (SpecDb, SpecCrm, SpecVoice,   *)
(* SpecHook, SpecWs) over the module's variables; a specification leaves   *)
(* the variables of the other subsystems at their initial value.           *)
(***************************************************************************)
EXTENDS Integers, Sequences, FiniteSets, TLC

VARIABLES
    clients,    \* pg pool: per pooled client, its checkout and transaction state
    reqs,       \* db.transaction / db.queryWithContext calls in flight
    dbTable,    \* committed effects of data statements
    stmtRuns,   \* history: the conditions under which data statements ran
    contacts,   \* nexuscrm.contacts
    companies,  \* nexuscrm.companies
    deals,      \* nexuscrm.deals
    activities, \* nexuscrm.activities
    campaigns,  \* nexuscrm.campaigns
    crmOps,     \* GraphQL mutations in flight, between two of their awaits
    storeCalls, \* history: graphRAGClient.storeDocument calls, by entityId
    createdRows,\* history: the contact rows as createContact inserted them
    lastList,   \* the last answer of a list resolver
    voiceCalls, \* nexuscrm.voice_calls
    voiceOps,   \* CallManager.makeCall calls in flight, between two awaits
    vapiRequests, \* history: the calls requested of the voice platform
    makeCallSeq, \* makeCall calls made so far
    webhookSecret, \* config.voice.vapiWebhookSecret
    lastHttp,   \* history: the last request to POST /webhooks/vapi
    ioInstance, \* the singleton of the WebSocket manager
    wsSeq,      \* broadcast calls made so far
    wsEmitted,  \* history: what was emitted to the rooms
    wsDropped,  \* history: the data of broadcasts made before initialization
    wsRaised,   \* history: the data of broadcasts that raised
    lastGql,    \* history: the last GraphQL request, its context and its run
    lastMutation, \* history: the last mutation, its arguments and its outcome
    vapiCancels,  \* history: the cancel requests made of the voice platform
    mutSeq,     \* mutations made so far
    sockets,    \* the WebSocket clients: handshake, principal and rooms
    wsRelayed,  \* history: the client events relayed to rooms
    startup     \* startServer: its position and what it has seen

dbVars == <<clients, reqs, dbTable, stmtRuns>>
crmVars == <<contacts, companies, deals, activities, campaigns, crmOps,
             storeCalls, createdRows, lastList>>

voiceVars == <<voiceCalls, voiceOps, vapiRequests, makeCallSeq>>
hookVars == <<webhookSecret, lastHttp>>
wsVars == <<ioInstance, wsSeq, wsEmitted, wsDropped, wsRaised>>
gqlVars == <<lastGql>>
mutVars == <<lastMutation, vapiCancels, mutSeq>>
sockVars == <<sockets, wsRelayed>>
startVars == <<startup>>

vars == <<dbVars, crmVars, voiceVars, hookVars, wsVars, gqlVars, mutVars, sockVars,
    startVars>>

\* What the actions of one subsystem leave alone.  (The call manager and the
\* webhook endpoint also read contacts and write activities.)
notDbVars == <<crmVars, voiceVars, hookVars, wsVars, gqlVars, mutVars, sockVars,
    startVars>>
notCrmVars == <<dbVars, voiceVars, hookVars, wsVars, gqlVars, mutVars, sockVars,
    startVars>>
notVoiceVars == <<dbVars, companies, deals, campaigns, crmOps, storeCalls,
                  createdRows, lastList, hookVars, wsVars, gqlVars, mutVars,
                  sockVars, startVars>>
notHookVars == <<dbVars, contacts, companies, deals, campaigns, crmOps,
                 storeCalls, createdRows, lastList, voiceOps, vapiRequests,
                 makeCallSeq, ioInstance, wsSeq, wsDropped, wsRaised, gqlVars,
                 mutVars, sockVars, startVars>>
notWsVars == <<dbVars, crmVars, voiceVars, hookVars, gqlVars, mutVars, sockVars,
    startVars>>
notGqlVars == <<dbVars, crmVars, voiceVars, hookVars, wsVars, mutVars, sockVars,
    startVars>>
\* (The mutations write the contacts, voice_calls and activities tables.)
notMutVars == <<dbVars, companies, deals, campaigns, crmOps, lastList,
                voiceOps, vapiRequests, makeCallSeq, hookVars, wsVars,
                gqlVars, sockVars, startVars>>
notSockVars == <<dbVars, crmVars, voiceVars, hookVars, wsVars, gqlVars,
                 mutVars, startVars>>
notStartVars == <<dbVars, crmVars, voiceVars, hookVars, wsVars, gqlVars,
                  mutVars, sockVars>>
\* (enrichContact writes the contacts table.)
notEnrichVars == <<dbVars, companies, deals, activities, campaigns, storeCalls,
                   createdRows, lastList, voiceVars, hookVars, wsVars, gqlVars,
                   mutVars, sockVars, startVars>>
\* (The mutations that use the orchestration client, and the campaign
\* mutations, write the voice_calls, activities and campaigns tables.)
notOrchVars == <<dbVars, contacts, companies, deals, crmOps, storeCalls,
                 createdRows, lastList, voiceOps, vapiRequests, makeCallSeq,
                 hookVars, wsVars, gqlVars, vapiCancels, sockVars, startVars>>

\* JavaScript null / SQL NULL, and JavaScript undefined.
Null == "null"
Undefined == "undefined"

\* Tenants.
Orgs == {"org1", "org2"}

(***************************************************************************)
(* Database access layer: src/src/utils/database.ts                        *)
(***************************************************************************)

\* Bounds: concurrent callers of the database layer, and pooled clients.
NumReqs == 2
PoolSize == 2

Reqs == 1..NumReqs
Clients == 1..PoolSize

\* The statements of a callback.  queryWithContext's callback sets the tenant
\* context and runs the caller's statement; a direct caller of transaction
\* passes a callback of its own, here two data statements.
QwcCallback == <<"SET", "STMT">>
TxnCallback == <<"STMT", "STMT">>

IdleClient == [busy |-> FALSE, inTxn |-> FALSE, aborted |-> FALSE,
               ctx |-> Null, pending |-> {}]

IdleReq == [pc |-> "idle", kind |-> "none", org |-> Null, stmts |-> <<>>,
            n |-> 1, client |-> 0, issued |-> {}, cbThrew |-> FALSE,
            result |-> "none"]

DbInit ==
    /\ clients = [c \in Clients |-> IdleClient]
    /\ reqs = [r \in Reqs |-> IdleReq]
    /\ dbTable = {}
    /\ stmtRuns = {}

\* The organizations a caller can be of.  (The database layer treats every
\* organization id alike, so the first caller is taken to be of org1.)
OrgsOfCaller(r) == IF r = 1 THEN {"org1"} ELSE Orgs

\* A caller enters queryWithContext(organizationId, text, params).  (The
\* callers do not differ: they are numbered in the order they enter.)
QueryWithContext(r) ==
    /\ reqs[r].pc = "idle"
    /\ \A q \in Reqs : q < r => reqs[q].pc # "idle"
    /\ \E o \in OrgsOfCaller(r) :
          reqs' = [reqs EXCEPT ![r] = [IdleReq EXCEPT !.pc = "connect",
                      !.kind = "qwc", !.org = o, !.stmts = QwcCallback]]
    /\ UNCHANGED <<clients, dbTable, stmtRuns, notDbVars>>

\* A caller enters transaction(callback) with a callback of its own.
Transaction(r) ==
    /\ reqs[r].pc = "idle"
    /\ \A q \in Reqs : q < r => reqs[q].pc # "idle"
    /\ \E o \in OrgsOfCaller(r) :
          reqs' = [reqs EXCEPT ![r] = [IdleReq EXCEPT !.pc = "connect",
                      !.kind = "txn", !.org = o, !.stmts = TxnCallback]]
    /\ UNCHANGED <<clients, dbTable, stmtRuns, notDbVars>>

\* const client = await this.pool.connect(): an idle client is checked out
\* (the pool hands a client to one caller at a time), or connect rejects
\* (outside the try block: nothing was acquired and nothing is released).
\* Idle clients do not differ (a client is reset when its transaction ends),
\* so the pool is taken to hand out the first idle one.
PoolConnect(r) ==
    /\ reqs[r].pc = "connect"
    /\ \/ \E c \in Clients :
             /\ ~clients[c].busy
             /\ \A d \in Clients : d < c => clients[d].busy
             /\ clients' = [clients EXCEPT ![c].busy = TRUE]
             /\ reqs' = [reqs EXCEPT ![r].client = c, ![r].pc = "begin"]
       \/ /\ reqs' = [reqs EXCEPT ![r].pc = "done", ![r].result = "threw"]
          /\ UNCHANGED clients
    /\ UNCHANGED <<dbTable, stmtRuns, notDbVars>>

\* await client.query('BEGIN')
TxBegin(r) ==
    /\ reqs[r].pc = "begin"
    /\ \/ /\ clients' = [clients EXCEPT ![reqs[r].client].inTxn = TRUE]
          /\ reqs' = [reqs EXCEPT ![r].pc = "callback",
                                  ![r].issued = @ \cup {"BEGIN"}]
       \/ /\ reqs' = [reqs EXCEPT ![r].pc = "rollback",
                                  ![r].issued = @ \cup {"BEGIN"}]
          /\ UNCHANGED clients
    /\ UNCHANGED <<dbTable, stmtRuns, notDbVars>>

\* A mutant of setOrganizationContext: the SET LOCAL statement is not issued.
SetOrganizationContextSkipped(cl, organizationId) == cl

\* setOrganizationContext: SET LOCAL app.current_organization_id = $1, on the
\* transaction's own client.
SetOrganizationContext(cl, organizationId) ==
    [cl EXCEPT !.ctx = organizationId]

\* The caller's statement (client.query(text, params)) on the transaction's
\* client: its effect is pending until COMMIT.
ClientQuery(cl, marker) ==
    [cl EXCEPT !.pending = @ \cup {marker}]

\* What is recorded of a data statement when it runs.
RunRecord(r, c) ==
    [kind |-> reqs[r].kind, org |-> reqs[r].org, ctx |-> clients[c].ctx,
     inTxn |-> clients[c].inTxn,
     shared |-> \E q \in Reqs \ {r} : reqs[q].client = c /\ reqs[q].pc # "done",
     issued |-> reqs[r].issued]

\* const result = await callback(client): the next statement of the callback
\* succeeds, or throws (the transaction is then aborted on the server).
TxCallback(r) ==
    /\ reqs[r].pc = "callback"
    /\ LET c == reqs[r].client
           i == reqs[r].n
           s == reqs[r].stmts[i]
           last == (i = Len(reqs[r].stmts))
       IN \/ /\ clients' = [clients EXCEPT ![c] =
                    IF s = "SET" THEN SetOrganizationContext(@, reqs[r].org)
                                 ELSE ClientQuery(@, <<r, i>>)]
             /\ reqs' = [reqs EXCEPT ![r].n = i + 1,
                                     ![r].issued = @ \cup {s},
                                     ![r].pc = IF last THEN "commit" ELSE "callback"]
             /\ stmtRuns' = IF s = "STMT" THEN stmtRuns \cup {RunRecord(r, c)}
                                          ELSE stmtRuns
          \/ /\ clients' = [clients EXCEPT ![c].aborted = TRUE]
             /\ reqs' = [reqs EXCEPT ![r].issued = @ \cup {s},
                                     ![r].cbThrew = TRUE,
                                     ![r].pc = "rollback"]
             /\ UNCHANGED <<stmtRuns, notDbVars>>
    /\ UNCHANGED <<dbTable, notDbVars>>

\* What the server does to the committed data when a transaction on client
\* cl ends with the given statement: COMMIT makes the pending effects
\* visible unless the transaction is aborted (COMMIT then rolls back);
\* ROLLBACK drops them.
EndTransaction(statement, cl, committed) ==
    IF statement = "COMMIT" /\ ~cl.aborted THEN committed \cup cl.pending
                                           ELSE committed

\* await client.query('COMMIT'); return result.  A COMMIT that throws leads
\* to the catch block.
TxCommit(r) ==
    /\ reqs[r].pc = "commit"
    /\ LET c == reqs[r].client
       IN \/ /\ dbTable' = EndTransaction("COMMIT", clients[c], dbTable)
             /\ clients' = [clients EXCEPT ![c] =
                    [IdleClient EXCEPT !.busy = TRUE]]
             /\ reqs' = [reqs EXCEPT ![r].issued = @ \cup {"COMMIT"},
                                     ![r].result = "returned",
                                     ![r].pc = "release"]
          \/ /\ clients' = [clients EXCEPT ![c].aborted = TRUE]
             /\ reqs' = [reqs EXCEPT ![r].issued = @ \cup {"COMMIT"},
                                     ![r].pc = "rollback"]
             /\ UNCHANGED <<dbTable, notDbVars>>
    /\ UNCHANGED <<stmtRuns, notDbVars>>

\* A mutant of the catch block: it commits instead of rolling back.
CatchStatementCommit == "COMMIT"

\* The statement the catch block of transaction issues.
CatchStatement == "ROLLBACK"

\* A mutant of the finally block: the catch block's throw leaves
\* transaction without the release.
CatchLeavesTransaction == "done"

\* Where the catch block's throw leads: to the finally block.
CatchLeadsToFinally == "release"

\* catch (error) { await client.query('ROLLBACK'); throw error; }
\* Whether ROLLBACK returns or throws (a lost connection), the server ends
\* the transaction; the caller sees the callback's error or ROLLBACK's.
TxCatch(r) ==
    /\ reqs[r].pc = "rollback"
    /\ LET c == reqs[r].client
       IN /\ dbTable' = EndTransaction(CatchStatement, clients[c], dbTable)
          /\ clients' = [clients EXCEPT ![c] = [IdleClient EXCEPT !.busy = TRUE]]
          /\ reqs' = [reqs EXCEPT ![r].issued = @ \cup {CatchStatement},
                                  ![r].result = "threw",
                                  ![r].pc = CatchLeadsToFinally]
    /\ UNCHANGED <<stmtRuns, notDbVars>>

\* finally { client.release(); }
TxRelease(r) ==
    /\ reqs[r].pc = "release"
    /\ clients' = [clients EXCEPT ![reqs[r].client].busy = FALSE]
    /\ reqs' = [reqs EXCEPT ![r].pc = "done", ![r].client = 0]
    /\ UNCHANGED <<dbTable, stmtRuns, notDbVars>>

DbNext ==
    \E r \in Reqs :
        \/ QueryWithContext(r)
        \/ Transaction(r)
        \/ PoolConnect(r)
        \/ TxBegin(r)
        \/ TxCallback(r)
        \/ TxCommit(r)
        \/ TxCatch(r)
        \/ TxRelease(r)

(***************************************************************************)
(* GraphQL resolvers: src/src/graphql/resolvers.ts                         *)
(***************************************************************************)

\* Bounds: contact rows created, and mutations in flight at the same time.
MaxContacts == 1
NumSessions == 1

Sessions == 1..NumSessions

\* The verified principals (context.auth.user) of the requests.
UserOne == [id |-> "u1", organizationId |-> "org1"]
UserTwo == [id |-> "u2", organizationId |-> "org2"]
Principals == {UserOne, UserTwo}

\* An id-typed value that is absent (undefined or NULL), and ids.
NoId == <<>>
ContactId(n) == <<"contact", n>>
CompanyId(n) == <<"company", n>>
DealId(n) == <<"deal", n>>

\* A number that is absent (undefined or NULL) is <<>>, the number n is <<n>>.
NoNum == <<>>

\* JavaScript truthiness of a string-typed value, and  v || null.
Falsy(v) == v \in {Undefined, Null, ""}
OrNull(v) == IF Falsy(v) THEN Null ELSE v

\* The characters of the text values the model uses.
Chars(s) ==
    CASE s = "Ann" -> <<"A", "n", "n">>
      [] s = "Bob" -> <<"B", "o", "b">>
      [] s = "ann@x.io" -> <<"a", "n", "n", "@", "x", ".", "i", "o">>
      [] s = "Acme" -> <<"A", "c", "m", "e">>
      [] s = "acme.io" -> <<"a", "c", "m", "e", ".", "i", "o">>
      [] s = "Init" -> <<"I", "n", "i", "t">>
      [] s = "an" -> <<"a", "n">>
      [] s = "AC" -> <<"A", "C">>
      [] OTHER -> <<>>

Lower(ch) ==
    CASE ch = "A" -> "a" [] ch = "B" -> "b" [] ch = "C" -> "c"
      [] ch = "I" -> "i" [] OTHER -> ch

\* column ILIKE '%' || search || '%' (no wildcard characters in search):
\* NULL ILIKE anything is not true.
ILike(col, search) ==
    /\ col # Null
    /\ LET c == Chars(col)
           p == Chars(search)
       IN \E i \in 0..(Len(c) - Len(p)) :
             \A j \in 1..Len(p) : Lower(c[i + j]) = Lower(p[j])

\* Row-level security: under tenant context ctx a statement sees the rows of
\* that organization only.
Rls(rows, ctx) == {row \in rows : row.organization_id = ctx}

\* ORDER BY created_at DESC
RECURSIVE OrderByCreatedAtDesc(_)
OrderByCreatedAtDesc(rows) ==
    IF rows = {} THEN <<>>
    ELSE LET newest == CHOOSE r \in rows : \A q \in rows : q.created_at <= r.created_at
         IN <<newest>> \o OrderByCreatedAtDesc(rows \ {newest})

\* The resolvers' defaults: limit = 50, offset = 0.
DefaultLimit == 50
DefaultOffset == 0

\* LIMIT $n OFFSET $m over the ordered rows.
LimitOffset(ordered, limit, offset) ==
    LET l == IF limit = NoNum THEN DefaultLimit ELSE limit[1]
        o == IF offset = NoNum THEN DefaultOffset ELSE offset[1]
        last == IF o + l < Len(ordered) THEN o + l ELSE Len(ordered)
    IN SubSeq(ordered, o + 1, last)

\* SELECT * FROM <table> WHERE <where> ORDER BY created_at DESC LIMIT OFFSET,
\* run by queryWithContext under the principal's organization id.
\* matching is the set of rows the WHERE clause holds for.
SelectPage(rows, auth, matching, limit, offset) ==
    LimitOffset(
        OrderByCreatedAtDesc(Rls(rows, auth.organizationId) \cap matching),
        limit, offset)

\* History kept with a list answer: how many soft-deleted rows of the
\* principal's organization the table held when the resolver ran.
SoftDeleted(rows, auth) ==
    Cardinality({row \in Rls(rows, auth.organizationId) : row.deleted_at # Null})

\* A mutant of the soft-delete condition: it is left out of the WHERE clause.
NotDeletedLeftOut(row) == TRUE

\* The soft-delete condition every list resolver starts its WHERE clause with.
NotDeleted(row) == row.deleted_at = Null

\* Query.contacts: the WHERE clause built from the filter.
ContactsWhere(filter, row) ==
    /\ NotDeleted(row)
    /\ filter.given =>
         /\ filter.companyId # NoId => row.company_id = filter.companyId
         /\ ~Falsy(filter.leadStatus) => row.lead_status = filter.leadStatus
         /\ ~Falsy(filter.ownerId) => row.owner_id = filter.ownerId
         /\ filter.minLeadScore # NoNum => row.lead_score >= filter.minLeadScore[1]
         /\ filter.maxLeadScore # NoNum => row.lead_score <= filter.maxLeadScore[1]
         /\ ~Falsy(filter.search) =>
               \/ ILike(row.first_name, filter.search)
               \/ ILike(row.last_name, filter.search)
               \/ ILike(row.email, filter.search)

\* Query.companies
CompaniesWhere(search, row) ==
    /\ NotDeleted(row)
    /\ ~Falsy(search) => (ILike(row.name, search) \/ ILike(row.domain, search))

\* Query.deals
DealsWhere(stage, ownerId, row) ==
    /\ NotDeleted(row)
    /\ ~Falsy(stage) => row.stage = stage
    /\ ~Falsy(ownerId) => row.owner_id = ownerId

\* Query.activities
ActivitiesWhere(contactId, companyId, dealId, type, row) ==
    /\ NotDeleted(row)
    /\ contactId # NoId => row.contact_id = contactId
    /\ companyId # NoId => row.company_id = companyId
    /\ dealId # NoId => row.deal_id = dealId
    /\ ~Falsy(type) => row.type = type

\* Query.campaigns
CampaignsWhere(status, row) ==
    /\ NotDeleted(row)
    /\ ~Falsy(status) => row.status = status

\* How many fields a ContactFilter has.
FilterFields(filter) ==
    (IF filter.companyId # NoId THEN 1 ELSE 0)
    + (IF filter.leadStatus # Undefined THEN 1 ELSE 0)
    + (IF filter.ownerId # Undefined THEN 1 ELSE 0)
    + (IF filter.minLeadScore # NoNum THEN 1 ELSE 0)
    + (IF filter.maxLeadScore # NoNum THEN 1 ELSE 0)
    + (IF filter.search # Undefined THEN 1 ELSE 0)

\* The arguments the requests are drawn from: no filter argument (given is
\* FALSE), and the filters with no field, one field and all six fields.
ContactFilters ==
    [given : {FALSE}, companyId : {NoId}, leadStatus : {Undefined},
     ownerId : {Undefined}, minLeadScore : {NoNum}, maxLeadScore : {NoNum},
     search : {Undefined}] \cup
    {filter \in [given : {TRUE},
                 companyId : {NoId, CompanyId(1)},
                 leadStatus : {Undefined, "new"},
                 ownerId : {Undefined, "u1"},
                 minLeadScore : {NoNum, <<10>>},
                 maxLeadScore : {NoNum, <<0>>},
                 search : {Undefined, "an"}] :
        FilterFields(filter) \in {0, 1, 6}}
\* <<limit, offset>>: both absent (the defaults apply), or a page of one row.
PageArgs == {<<NoNum, NoNum>>, <<(<<1>>), (<<1>>)>>}

\* The inputs of createContact: with an email and a phone, with a mobile
\* number only, with an empty email and a phone.
AnnInput ==
    [companyId |-> CompanyId(1), firstName |-> "Ann", lastName |-> Undefined,
     email |-> "ann@x.io", phone |-> "555", mobile |-> Undefined,
     ownerId |-> Undefined]
BobInput ==
    [companyId |-> NoId, firstName |-> "Bob", lastName |-> Undefined,
     email |-> Undefined, phone |-> Undefined, mobile |-> "777",
     ownerId |-> "u1"]
NoEmailInput ==
    [companyId |-> NoId, firstName |-> Undefined, lastName |-> "Ann",
     email |-> "", phone |-> "555", mobile |-> Undefined,
     ownerId |-> Undefined]
CreateContactInputs == {AnnInput, BobInput, NoEmailInput}

\* Rows of the tables this codebase only reads or updates: they are created
\* (and soft-deleted) by the other users of the shared database.
SeedCompanies ==
    { [id |-> CompanyId(1), organization_id |-> "org1", name |-> "Acme",
       domain |-> "acme.io", created_at |-> 1, deleted_at |-> Null],
      [id |-> CompanyId(2), organization_id |-> "org1", name |-> "Init",
       domain |-> Null, created_at |-> 2, deleted_at |-> "t1"],
      [id |-> CompanyId(3), organization_id |-> "org2", name |-> "Acme",
       domain |-> Null, created_at |-> 3, deleted_at |-> Null] }
SeedDeals ==
    { [id |-> DealId(1), organization_id |-> "org1", stage |-> "won",
       owner_id |-> "u1", created_at |-> 1, deleted_at |-> Null],
      [id |-> DealId(2), organization_id |-> "org1", stage |-> "won",
       owner_id |-> "u1", created_at |-> 2, deleted_at |-> "t1"],
      [id |-> DealId(3), organization_id |-> "org2", stage |-> "open",
       owner_id |-> "u2", created_at |-> 3, deleted_at |-> Null] }
SeedActivities ==
    { [id |-> <<"activity", 1>>, organization_id |-> "org1", type |-> "note",
       contact_id |-> NoId, company_id |-> CompanyId(1), deal_id |-> DealId(1),
       created_at |-> 1, deleted_at |-> Null],
      [id |-> <<"activity", 2>>, organization_id |-> "org1", type |-> "note",
       contact_id |-> NoId, company_id |-> CompanyId(1), deal_id |-> DealId(1),
       created_at |-> 2, deleted_at |-> "t1"],
      [id |-> <<"activity", 3>>, organization_id |-> "org2", type |-> "task",
       contact_id |-> NoId, company_id |-> NoId, deal_id |-> NoId,
       created_at |-> 3, deleted_at |-> Null] }
SeedCampaigns ==
    { [id |-> <<"campaign", 1>>, organization_id |-> "org1", status |-> "draft",
       created_at |-> 1, deleted_at |-> Null,
       orchestration_execution_id |-> NoId],
      [id |-> <<"campaign", 2>>, organization_id |-> "org1", status |-> "draft",
       created_at |-> 2, deleted_at |-> "t1",
       orchestration_execution_id |-> NoId],
      [id |-> <<"campaign", 3>>, organization_id |-> "org2", status |-> "active",
       created_at |-> 3, deleted_at |-> Null,
       orchestration_execution_id |-> NoId] }

IdleOp == [pc |-> "idle"]

\* The tables and the resolvers at start, with the given contact and
\* activity rows.
CrmInitWith(contactRows, activityRows) ==
    /\ contacts = contactRows
    /\ companies = SeedCompanies
    /\ deals = SeedDeals
    /\ activities = activityRows
    /\ campaigns = SeedCampaigns
    /\ crmOps = [s \in Sessions |-> IdleOp]
    /\ storeCalls = {}
    /\ createdRows = {}
    /\ lastList = [resolver |-> "none", rows |-> <<>>, softDeleted |-> 0]

CrmInit == CrmInitWith({}, SeedActivities)

\* The row createContact's INSERT ... RETURNING * creates: the columns the
\* statement names, the columns' defaults otherwise.
InsertedContact(n, input, auth) ==
    [id |-> ContactId(n),
     organization_id |-> auth.organizationId,
     company_id |-> input.companyId,
     first_name |-> OrNull(input.firstName),
     last_name |-> OrNull(input.lastName),
     email |-> OrNull(input.email),
     phone |-> OrNull(input.phone),
     mobile |-> OrNull(input.mobile),
     owner_id |-> IF Falsy(input.ownerId) THEN auth.id ELSE input.ownerId,
     lead_status |-> "new",
     lead_score |-> 0,
     created_at |-> n,
     updated_at |-> n,
     deleted_at |-> Null,
     enrichment_data |-> Null]

\* A mutant of the store condition: a mobile number counts as well.
StoresInSearchIndexAnyNumber(contact) ==
    ~Falsy(contact.email) \/ ~Falsy(contact.phone) \/ ~Falsy(contact.mobile)

\* if (contact.email || contact.phone)
StoresInSearchIndex(contact) == ~Falsy(contact.email) \/ ~Falsy(contact.phone)

\* Mutation.createContact, to its first await's end: the INSERT, which
\* throws ("Failed to create contact") or returns the inserted row.
CreateContactInsert(s) ==
    /\ crmOps[s].pc = "idle"
    /\ Cardinality(contacts) < MaxContacts
    /\ \E auth \in Principals, input \in CreateContactInputs :
          \/ LET contact == InsertedContact(Cardinality(contacts) + 1, input, auth)
             IN /\ contacts' = contacts \cup {contact}
                /\ createdRows' = createdRows \cup {contact}
                /\ crmOps' = [crmOps EXCEPT ![s] =
                      [pc |-> "createContact:inserted", contact |-> contact]]
          \/ UNCHANGED <<contacts, createdRows, crmOps>>
    /\ UNCHANGED <<companies, deals, activities, campaigns, storeCalls, lastList, notCrmVars>>

\* Mutation.createContact, after the INSERT: the search-index store call when
\* the contact has an email or a phone (the call returns or throws), then the
\* mutation ends.
CreateContactStore(s) ==
    /\ crmOps[s].pc = "createContact:inserted"
    /\ storeCalls' = IF StoresInSearchIndex(crmOps[s].contact)
                     THEN storeCalls \cup {crmOps[s].contact.id}
                     ELSE storeCalls
    /\ crmOps' = [crmOps EXCEPT ![s] = IdleOp]
    /\ UNCHANGED <<contacts, companies, deals, activities, campaigns,
                   createdRows, lastList, notCrmVars>>

\* A mutant of deleteContact's statement: DELETE FROM contacts WHERE id = $1.
HardDeleteContact(rows, organizationId, id) ==
    {row \in rows : ~(row.id = id /\ row.organization_id = organizationId)}

\* UPDATE contacts SET deleted_at = CURRENT_TIMESTAMP WHERE id = $1 AND
\* deleted_at IS NULL, under tenant context organizationId.
SoftDeleteContact(rows, organizationId, id) ==
    {IF /\ row.id = id
        /\ row.organization_id = organizationId
        /\ row.deleted_at = Null
     THEN [row EXCEPT !.deleted_at = "now"] ELSE row : row \in rows}

\* Mutation.deleteContact
DeleteContact ==
    /\ \E auth \in Principals, n \in 1..MaxContacts :
          contacts' = SoftDeleteContact(contacts, auth.organizationId,
                                        ContactId(n))
    /\ contacts' # contacts
    /\ UNCHANGED <<companies, deals, activities, campaigns, crmOps, storeCalls,
                   createdRows, lastList, notCrmVars>>

\* Query.contacts
Contacts ==
    /\ \E auth \in Principals, filter \in ContactFilters,
          page \in PageArgs :
          lastList' = [resolver |-> "contacts",
                       softDeleted |-> SoftDeleted(contacts, auth),
                       rows |-> SelectPage(contacts, auth,
                                   {row \in contacts : ContactsWhere(filter, row)},
                                   page[1], page[2])]
    /\ UNCHANGED <<contacts, companies, deals, activities, campaigns, crmOps,
                   storeCalls, createdRows, notCrmVars>>

\* Query.contactsCount: the WHERE clause built from the filter, of which
\* companyId and leadStatus are read.
ContactsCountWhere(filter, row) ==
    /\ NotDeleted(row)
    /\ filter.given =>
         /\ filter.companyId # NoId => row.company_id = filter.companyId
         /\ ~Falsy(filter.leadStatus) => row.lead_status = filter.leadStatus

\* Query.contactsCount: SELECT COUNT(*) under the principal's organization;
\* parseInt(result.rows[0].count, 10) is the number the decimal text denotes.
ContactsCount ==
    /\ \E auth \in Principals, filter \in ContactFilters :
          lastList' = [resolver |-> "contactsCount",
                       softDeleted |-> SoftDeleted(contacts, auth),
                       rows |-> <<>>,
                       auth |-> auth,
                       filter |-> filter,
                       count |-> Cardinality(
                           {row \in Rls(contacts, auth.organizationId) :
                               ContactsCountWhere(filter, row)})]
    /\ UNCHANGED <<contacts, companies, deals, activities, campaigns, crmOps,
                   storeCalls, createdRows, notCrmVars>>

\* Query.companies
Companies ==
    /\ \E auth \in Principals, search \in {Undefined, "", "AC"},
          page \in PageArgs :
          lastList' = [resolver |-> "companies",
                       softDeleted |-> SoftDeleted(companies, auth),
                       rows |-> SelectPage(companies, auth,
                                   {row \in companies : CompaniesWhere(search, row)},
                                   page[1], page[2])]
    /\ UNCHANGED <<contacts, companies, deals, activities, campaigns, crmOps,
                   storeCalls, createdRows, notCrmVars>>

\* Query.deals
Deals ==
    /\ \E auth \in Principals, stage \in {Undefined, "won"},
          ownerId \in {Undefined, "u1"},
          page \in PageArgs :
          lastList' = [resolver |-> "deals",
                       softDeleted |-> SoftDeleted(deals, auth),
                       rows |-> SelectPage(deals, auth,
                                   {row \in deals : DealsWhere(stage, ownerId, row)},
                                   page[1], page[2])]
    /\ UNCHANGED <<contacts, companies, deals, activities, campaigns, crmOps,
                   storeCalls, createdRows, notCrmVars>>

\* Query.activities
Activities ==
    /\ \E auth \in Principals, contactId \in {NoId, ContactId(1)},
          companyId \in {NoId, CompanyId(1)}, dealId \in {NoId, DealId(1)},
          type \in {Undefined, "note"},
          page \in PageArgs :
          lastList' = [resolver |-> "activities",
                       softDeleted |-> SoftDeleted(activities, auth),
                       rows |-> SelectPage(activities, auth,
                                   {row \in activities : ActivitiesWhere(contactId, companyId, dealId, type, row)},
                                   page[1], page[2])]
    /\ UNCHANGED <<contacts, companies, deals, activities, campaigns, crmOps,
                   storeCalls, createdRows, notCrmVars>>

\* Query.campaigns
Campaigns ==
    /\ \E auth \in Principals, status \in {Undefined, "draft"},
          page \in PageArgs :
          lastList' = [resolver |-> "campaigns",
                       softDeleted |-> SoftDeleted(campaigns, auth),
                       rows |-> SelectPage(campaigns, auth,
                                   {row \in campaigns : CampaignsWhere(status, row)},
                                   page[1], page[2])]
    /\ UNCHANGED <<contacts, companies, deals, activities, campaigns, crmOps,
                   storeCalls, createdRows, notCrmVars>>

CrmNext ==
    \/ \E s \in Sessions : CreateContactInsert(s)
    \/ \E s \in Sessions : CreateContactStore(s)
    \/ DeleteContact
    \/ Contacts
    \/ Companies
    \/ Deals
    \/ Activities
    \/ Campaigns

(***************************************************************************)
(* Voice call manager: src/src/voice/index.ts                              *)
(***************************************************************************)

\* Bounds: concurrent callers of makeCall, and makeCall calls made.
NumCallers == 1
MaxCalls == 1

Callers == 1..NumCallers

CallId(n) == <<"call", n>>
VapiId(n) == <<"vapi", n>>
ActivityId(n) == <<"activity", n>>

\* row.organizationId and the like: reading a property of a row object.  The
\* rows the driver returns are keyed by column name (organization_id,
\* external_call_id, ...); a property the object does not have is undefined.
JsProp(row, name) == IF name \in DOMAIN row THEN row[name] ELSE Undefined

\* A statement run by queryWithContext under tenant context ctx changes the
\* rows of that organization only.
\* matching is the set of rows the WHERE clause holds for, set gives the
\* row a matching row becomes.
UpdateWithContext(rows, ctx, matching, set) ==
    {IF row \in Rls(rows, ctx) \cap matching THEN set[row] ELSE row :
        row \in rows}

\* Scripts are texts of several lines.
ScriptGreeting == <<"You are a sales agent.", "  ", "Hello, this is Ann from Acme.">>
ScriptPitch == <<"", " Pitch the product. ">>
ScriptBlank == <<"  ">>
Scripts == {ScriptGreeting, ScriptPitch, ScriptBlank}

\* line.trim(), over the lines the model uses.
Trim(line) ==
    CASE line = "  " -> ""
      [] line = " Pitch the product. " -> "Pitch the product."
      [] OTHER -> line

\* line.toLowerCase().includes('hello' | 'hi ' | 'good morning' |
\* 'good afternoon'), over the lines the model uses.
IsGreeting(line) ==
    line \in {"Hello, this is Ann from Acme.", "Good morning Bob."}

\* extractFirstMessage: the first greeting line, else the first non-blank
\* line, trimmed; 'Hello!' for a script without a non-blank line.
ExtractFirstMessage(script) ==
    LET lines == SelectSeq(script, LAMBDA line : Trim(line) # "")
        greetings == {i \in 1..Len(lines) : IsGreeting(lines[i])}
    IN IF Len(lines) = 0 THEN "Hello!"
       ELSE IF greetings # {}
            THEN Trim(lines[CHOOSE i \in greetings : \A j \in greetings : i <= j])
            ELSE Trim(lines[1])

\* What mageClient.generate answers: some other text than the script given.
Personalized(script) == <<"Good morning Bob.">> \o script

\* The arguments makeCall is called with.
MakeCallInputs ==
    [contactId : {NoId, ContactId(1), ContactId(2), ContactId(3), ContactId(9)},
     toNumber : {"+1555"},
     script : Scripts]

NoInput == [contactId |-> NoId, toNumber |-> "", script |-> <<>>]

IdleVoiceOp ==
    [pc |-> "idle", input |-> NoInput, organizationId |-> Null, userId |-> Null,
     resolved |-> FALSE, generated |-> FALSE, finalScript |-> <<>>,
     callId |-> NoId, vapiId |-> NoId, result |-> "none"]

\* A mutant of the contact lookup: deleted_at IS NULL is left out.
ContactContextAnyRow(rows, organizationId, contactId) ==
    {row \in Rls(rows, organizationId) : row.id = contactId}

\* SELECT * FROM nexuscrm.contacts WHERE id = $1 AND deleted_at IS NULL,
\* under the caller's organization id.
ContactContext(rows, organizationId, contactId) ==
    {row \in Rls(rows, organizationId) :
        row.id = contactId /\ row.deleted_at = Null}

\* The row INSERT INTO nexuscrm.voice_calls ... RETURNING * creates:
\* assistant_config holds systemPrompt and firstMessage, metadata holds
\* contactId and script; the other columns have their defaults.  (The
\* analysis columns are represented by sentiment_overall;
\* orchestration_execution_id stands for metadata.orchestrationExecutionId,
\* which makeCall of the call manager does not write.)
InsertedCall(n, input, organizationId, finalScript) ==
    [id |-> CallId(n),
     organization_id |-> organizationId,
     external_call_id |-> NoId,
     to_number |-> input.toNumber,
     status |-> "initiated",
     system_prompt |-> finalScript,
     first_message |-> ExtractFirstMessage(finalScript),
     contact_id |-> input.contactId,
     script |-> finalScript,
     answered_at |-> Null,
     ended_at |-> Null,
     duration_seconds |-> NoNum,
     transcript |-> Null,
     recording_url |-> Null,
     cost_usd |-> NoNum,
     cost_breakdown |-> Null,
     sentiment_overall |-> Null,
     orchestration_execution_id |-> NoId]

\* The row INSERT INTO nexuscrm.activities creates for a call: metadata holds
\* voiceCallId and vapiCallId.  (The analysis columns are represented by
\* sentiment.)
InsertedCallActivity(n, input, organizationId, userId, callId, vapiId) ==
    [id |-> ActivityId(n),
     organization_id |-> organizationId,
     type |-> "call",
     contact_id |-> input.contactId,
     company_id |-> NoId,
     deal_id |-> NoId,
     created_at |-> n,
     deleted_at |-> Null,
     created_by |-> userId,
     call_status |-> "initiated",
     duration_seconds |-> NoNum,
     transcript |-> Null,
     recording_url |-> Null,
     cost_usd |-> NoNum,
     completed_at |-> Null,
     voiceCallId |-> callId,
     vapiCallId |-> vapiId,
     sentiment |-> Null]

\* Contacts created and soft-deleted before the calls are made.
SeedContacts ==
    { InsertedContact(1, AnnInput, UserOne),
      [InsertedContact(2, BobInput, UserOne) EXCEPT !.deleted_at = "t1"],
      InsertedContact(3, NoEmailInput, UserTwo) }

VoiceOpsInit ==
    /\ voiceOps = [c \in Callers |-> IdleVoiceOp]
    /\ vapiRequests = {}
    /\ makeCallSeq = 0

\* A mutant of the catch block of makeCall: the error is logged and
\* makeCall returns.
MakeCallSwallows(c) ==
    voiceOps' = [voiceOps EXCEPT ![c].pc = "done", ![c].result = "returned"]

\* makeCall throws: 'Failed to make call: ...'
MakeCallThrows(c) ==
    voiceOps' = [voiceOps EXCEPT ![c].pc = "done", ![c].result = "threw"]

\* makeCall, steps 1: the contact lookup when input.contactId is given.  The
\* query returns or throws.  Without a contact context the next await is
\* the insert of the call row.
MakeCallLookup(c) ==
    /\ voiceOps[c].pc \in {"idle", "done"}
    /\ makeCallSeq < MaxCalls
    /\ makeCallSeq' = makeCallSeq + 1
    /\ \E input \in MakeCallInputs, auth \in Principals :
          LET found == IF input.contactId # NoId
                       THEN ContactContext(contacts, auth.organizationId,
                                           input.contactId)
                       ELSE {}
              op == [IdleVoiceOp EXCEPT !.input = input,
                        !.organizationId = auth.organizationId,
                        !.userId = auth.id,
                        !.resolved = (found # {}),
                        !.finalScript = input.script,
                        !.pc = IF found # {} THEN "generate" ELSE "insert"]
          IN \/ voiceOps' = [voiceOps EXCEPT ![c] = op]
             \/ /\ input.contactId # NoId
                /\ voiceOps' = [voiceOps EXCEPT ![c] =
                      [op EXCEPT !.pc = "done", !.resolved = FALSE,
                                 !.result = "threw"]]
    /\ UNCHANGED <<voiceCalls, vapiRequests, contacts, activities, notVoiceVars>>

\* makeCall, step 2: finalScript = await mageClient.generate(...), which
\* returns a text or throws.
MakeCallGenerate(c) ==
    /\ voiceOps[c].pc = "generate"
    /\ \/ voiceOps' = [voiceOps EXCEPT ![c].generated = TRUE,
                          ![c].finalScript = Personalized(voiceOps[c].input.script),
                          ![c].pc = "insert"]
       \/ voiceOps' = [voiceOps EXCEPT ![c].generated = TRUE,
                          ![c].pc = "done", ![c].result = "threw"]
    /\ UNCHANGED <<makeCallSeq, voiceCalls, vapiRequests, contacts, activities, notVoiceVars>>

\* makeCall, steps 3 and 4: the assistant is built from finalScript and the
\* call row is inserted in state 'initiated'; or the insert throws.
MakeCallInsert(c) ==
    /\ voiceOps[c].pc = "insert"
    /\ LET op == voiceOps[c]
           call == InsertedCall(Cardinality(voiceCalls) + 1, op.input,
                                op.organizationId, op.finalScript)
       IN \/ /\ voiceCalls' = voiceCalls \cup {call}
             /\ voiceOps' = [voiceOps EXCEPT ![c].callId = call.id,
                                             ![c].pc = "dial"]
          \/ /\ MakeCallThrows(c)
             /\ UNCHANGED voiceCalls
    /\ UNCHANGED <<makeCallSeq, vapiRequests, contacts, activities, notVoiceVars>>

\* makeCall, step 5: vapiClient.makeCall({phoneNumber, assistant, metadata});
\* the platform answers with its call id, or the request throws.
MakeCallDial(c) ==
    /\ voiceOps[c].pc = "dial"
    /\ LET op == voiceOps[c]
           call == CHOOSE row \in voiceCalls : row.id = op.callId
           request == [phoneNumber |-> op.input.toNumber,
                       systemPrompt |-> call.system_prompt,
                       firstMessage |-> call.first_message,
                       nexusCallId |-> call.id,
                       contactId |-> op.input.contactId,
                       organizationId |-> op.organizationId,
                       userId |-> op.userId]
       IN /\ vapiRequests' = vapiRequests \cup {request}
          /\ \/ voiceOps' = [voiceOps EXCEPT ![c].vapiId = VapiId(call.id[2]),
                                             ![c].pc = "saveId"]
             \/ MakeCallThrows(c)
    /\ UNCHANGED <<makeCallSeq, voiceCalls, contacts, activities, notVoiceVars>>

\* makeCall, step 6: UPDATE voice_calls SET external_call_id = $1 ... WHERE
\* id = $4; or the update throws.  Without input.contactId makeCall returns
\* after it.
MakeCallSaveId(c) ==
    /\ voiceOps[c].pc = "saveId"
    /\ LET op == voiceOps[c]
       IN \/ /\ voiceCalls' = UpdateWithContext(voiceCalls, op.organizationId,
                    {row \in voiceCalls : row.id = op.callId},
                    [row \in voiceCalls |->
                        [row EXCEPT !.external_call_id = op.vapiId]])
             /\ voiceOps' = IF op.input.contactId # NoId
                            THEN [voiceOps EXCEPT ![c].pc = "activity"]
                            ELSE [voiceOps EXCEPT ![c].pc = "done",
                                                  ![c].result = "returned"]
          \/ /\ MakeCallThrows(c)
             /\ UNCHANGED voiceCalls
    /\ UNCHANGED <<makeCallSeq, vapiRequests, contacts, activities, notVoiceVars>>

\* makeCall, step 7: the activity row is inserted (input.contactId is given)
\* and makeCall returns; or the insert throws.
MakeCallActivity(c) ==
    /\ voiceOps[c].pc = "activity"
    /\ LET op == voiceOps[c]
       IN \/ /\ activities' = activities \cup
                    {InsertedCallActivity(Cardinality(activities) + 1, op.input,
                        op.organizationId, op.userId, op.callId, op.vapiId)}
             /\ voiceOps' = [voiceOps EXCEPT ![c].pc = "done",
                                             ![c].result = "returned"]
          \/ /\ MakeCallThrows(c)
             /\ UNCHANGED activities
    /\ UNCHANGED <<makeCallSeq, voiceCalls, vapiRequests, contacts, notVoiceVars>>

VoiceNext ==
    \E c \in Callers :
        \/ MakeCallLookup(c)
        \/ MakeCallGenerate(c)
        \/ MakeCallInsert(c)
        \/ MakeCallDial(c)
        \/ MakeCallSaveId(c)
        \/ MakeCallActivity(c)

\* data.x || null for a number-typed value: undefined and 0 become NULL.
OrNullNum(v) == IF v = NoNum \/ v = <<0>> THEN NoNum ELSE v

\* A mutant of COALESCE: the parameter always overwrites the column.
CoalesceOverwrite(param, old) == param

\* COALESCE($n, column) for a text, timestamp or JSON column.
Coalesce(param, old) == IF param = Null THEN old ELSE param

\* COALESCE($n, column) for a numeric column.
CoalesceNum(param, old) == IF param = NoNum THEN old ELSE param

\* The data argument of updateCallStatus with no field given.
NoData ==
    [answeredAt |-> Undefined, endedAt |-> Undefined, durationSeconds |-> NoNum,
     transcript |-> Undefined, recordingUrl |-> Undefined, cost |-> NoNum,
     costBreakdown |-> Undefined]

\* UPDATE nexuscrm.voice_calls SET status = $1, answered_at =
\* COALESCE($2, answered_at), ... on one row.
UpdatedCall(row, status, data) ==
    [row EXCEPT
       !.status = status,
       !.answered_at = Coalesce(OrNull(data.answeredAt), @),
       !.ended_at = Coalesce(OrNull(data.endedAt), @),
       !.duration_seconds = CoalesceNum(OrNullNum(data.durationSeconds), @),
       !.transcript = Coalesce(OrNull(data.transcript), @),
       !.recording_url = Coalesce(OrNull(data.recordingUrl), @),
       !.cost_usd = CoalesceNum(OrNullNum(data.cost), @),
       !.cost_breakdown = Coalesce(OrNull(data.costBreakdown), @)]

\* UPDATE nexuscrm.activities SET call_status = $1, duration_seconds =
\* COALESCE($2, duration_seconds), ... on one row.
UpdatedActivity(row, status, data) ==
    [row EXCEPT
       !.call_status = status,
       !.duration_seconds = CoalesceNum(OrNullNum(data.durationSeconds), @),
       !.transcript = Coalesce(OrNull(data.transcript), @),
       !.recording_url = Coalesce(OrNull(data.recordingUrl), @),
       !.cost_usd = CoalesceNum(OrNullNum(data.cost), @),
       !.completed_at = Coalesce(OrNull(data.endedAt), @)]

\* metadata->>'key' = value
MetadataIs(row, key, value) == key \in DOMAIN row /\ row[key] = value

\* What can go wrong while a status update is processed: nothing, or one of
\* the statements or requests throws.
Envs == {"ok", "updateThrows", "analyzeThrows", "analysisUpdateThrows",
         "activityUpdateThrows"}

\* The failures the requests are drawn with, by the event a request
\* carries: the update of the call row throws for any call lifecycle
\* event, the analysis fails for a call.ended event, the update of the
\* activity row throws for a call.started or call.failed event.  The other
\* handlers reach no statement and no request.
EnvsOf(event) ==
    CASE event.type = "call.ended" ->
            {"ok", "updateThrows", "analyzeThrows", "analysisUpdateThrows"}
      [] event.type \in {"call.started", "call.failed"} ->
            {"ok", "updateThrows", "activityUpdateThrows"}
      [] event.type = "call.answered" -> {"ok", "updateThrows"}
      [] OTHER -> {"ok"}

\* What mageClient.analyze answers for a transcript.
Sentiment(transcript) == "positive"

\* A mutant of the catch block of analyzeCallTranscript: the error is
\* thrown on.
AnalysisErrorRethrown(failed) == failed

\* The catch block of analyzeCallTranscript: "Don't throw - analysis failure
\* shouldn't break the workflow"; whether analyzeCallTranscript throws.
AnalysisErrorThrown(failed) == FALSE

\* analyzeCallTranscript(callId, transcript, organizationId): the analysis
\* request, then the two updates under tenant context organizationId; an
\* error of any of them is caught and logged.
AnalyzeCallTranscript(calls, acts, callId, transcript, organizationId, env) ==
    IF env \in {"analyzeThrows", "analysisUpdateThrows"}
    THEN [calls |-> calls, acts |-> acts, analysis |-> "threw",
          threw |-> AnalysisErrorThrown(TRUE)]
    ELSE [calls |-> UpdateWithContext(calls, organizationId,
                       {row \in calls : row.id = callId},
                       [row \in calls |-> [row EXCEPT !.sentiment_overall =
                                                          Sentiment(transcript)]]),
          acts |-> UpdateWithContext(acts, organizationId,
                       {row \in acts : MetadataIs(row, "voiceCallId", callId)},
                       [row \in {act \in acts : "sentiment" \in DOMAIN act} |->
                           [row EXCEPT !.sentiment = Sentiment(transcript)]]),
          analysis |-> "returned", threw |-> AnalysisErrorThrown(FALSE)]

\* updateCallStatus(vapiCallId, status, data): an error of an awaited call
\* reaches the catch block, which throws it on.  The result is the tables
\* afterwards, whether it threw, whether a call row matched, and how the
\* transcript analysis went ("none" when it was not requested).
UpdateCallStatus(calls, acts, vapiCallId, status, data, env) ==
    LET matched == {row \in calls : /\ row.external_call_id # NoId
                                    /\ row.external_call_id = vapiCallId}
        calls1 == {IF row \in matched THEN UpdatedCall(row, status, data)
                                      ELSE row : row \in calls}
        call == UpdatedCall(CHOOSE row \in matched : TRUE, status, data)
        analyzed ==
            IF status = "completed" /\ ~Falsy(data.transcript)
            THEN AnalyzeCallTranscript(calls1, acts, call.id, data.transcript,
                                       JsProp(call, "organizationId"), env)
            ELSE [calls |-> calls1, acts |-> acts, analysis |-> "none",
                  threw |-> FALSE]
        acts1 == {IF MetadataIs(row, "vapiCallId", vapiCallId)
                  THEN UpdatedActivity(row, status, data)
                  ELSE row : row \in analyzed.acts}
    IN IF env = "updateThrows"
       THEN [calls |-> calls, acts |-> acts, threw |-> TRUE,
             matched |-> FALSE, analysis |-> "none"]
       ELSE IF matched = {}
       THEN [calls |-> calls, acts |-> acts, threw |-> FALSE,
             matched |-> FALSE, analysis |-> "none"]
       ELSE IF analyzed.threw \/ env = "activityUpdateThrows"
       THEN [calls |-> analyzed.calls, acts |-> analyzed.acts, threw |-> TRUE,
             matched |-> TRUE, analysis |-> analyzed.analysis]
       ELSE [calls |-> analyzed.calls, acts |-> acts1, threw |-> FALSE,
             matched |-> TRUE, analysis |-> analyzed.analysis]

(***************************************************************************)
(* WebSocket broadcast manager: src/src/websocket/manager.ts               *)
(***************************************************************************)

\* Bound: broadcast calls made.
MaxBroadcasts == 3

\* The rooms `org:${organizationId}` and `call:${callId}`.
OrgRoom(organizationId) == [ns |-> "org", org |-> organizationId, call |-> NoId]
CallRoom(callId) == [ns |-> "call", org |-> Null, call |-> callId]

\* The result of a broadcast call: what it emits (room, event, data), and
\* whether it raised.
Emitted(emits) == [emits |-> emits, raised |-> FALSE]

WsInit ==
    /\ ioInstance = Null
    /\ wsSeq = 0
    /\ wsEmitted = {}
    /\ wsDropped = {}
    /\ wsRaised = {}

\* initializeWebSocketManager(io): the first call sets the singleton, a
\* later call only logs a warning.
InitializeWebSocketManager ==
    /\ ioInstance' = IF ioInstance # Null THEN ioInstance ELSE "io"
    /\ UNCHANGED <<wsSeq, wsEmitted, wsDropped, wsRaised, notWsVars>>

\* A mutant of broadcastToOrganization: no check of the singleton, so that
\* ioInstance.to(room) is a TypeError before initialization.
BroadcastToOrganizationUnguarded(io, organizationId, event, data) ==
    IF io = Null THEN [emits |-> {}, raised |-> TRUE]
    ELSE Emitted({[room |-> OrgRoom(organizationId), event |-> event,
                   data |-> data]})

\* broadcastToOrganization(organizationId, event, data)
BroadcastToOrganization(io, organizationId, event, data) ==
    IF io = Null THEN Emitted({})
    ELSE Emitted({[room |-> OrgRoom(organizationId), event |-> event,
                   data |-> data]})

\* broadcastToCall(callId, event, data)
BroadcastToCall(io, callId, event, data) ==
    IF io = Null THEN Emitted({})
    ELSE Emitted({[room |-> CallRoom(callId), event |-> event,
                   data |-> data]})

\* The two broadcasts of broadcastTranscriptUpdate and broadcastCallStatus,
\* one after the other.
ToCallThenOrganization(io, callId, organizationId, event, data) ==
    LET first == BroadcastToCall(io, callId, event, data)
        second == BroadcastToOrganization(io, organizationId, event, data)
    IN IF first.raised THEN first
       ELSE [emits |-> first.emits \cup second.emits, raised |-> second.raised]

\* broadcastTranscriptUpdate(callId, organizationId, transcript)
BroadcastTranscriptUpdate(io, callId, organizationId, data) ==
    IF io = Null THEN Emitted({})
    ELSE ToCallThenOrganization(io, callId, organizationId,
                                "call:transcript:update", data)

\* broadcastCallStatus(callId, organizationId, status, metadata)
BroadcastCallStatus(io, callId, organizationId, data) ==
    IF io = Null THEN Emitted({})
    ELSE ToCallThenOrganization(io, callId, organizationId, "call:status", data)

\* A broadcast call is made: its data is numbered, dropped when the
\* singleton is not set, and what it emits is emitted.
Broadcast(result, data) ==
    /\ wsSeq < MaxBroadcasts
    /\ wsSeq' = wsSeq + 1
    /\ wsEmitted' = wsEmitted \cup result.emits
    /\ wsDropped' = IF ioInstance = Null THEN wsDropped \cup {data} ELSE wsDropped
    /\ wsRaised' = IF result.raised THEN wsRaised \cup {data} ELSE wsRaised
    /\ UNCHANGED <<ioInstance, notWsVars>>

CallBroadcastToOrganization ==
    \E organizationId \in Orgs, event \in {"call:status", "campaign:progress"} :
        LET data == <<"data", wsSeq + 1>>
        IN Broadcast(BroadcastToOrganization(ioInstance, organizationId,
                                             event, data), data)

CallBroadcastToCall ==
    \E callId \in {VapiId(1), VapiId(2)} :
        LET data == <<"data", wsSeq + 1>>
        IN Broadcast(BroadcastToCall(ioInstance, callId, "call:status", data),
                     data)

CallBroadcastTranscriptUpdate ==
    \E callId \in {VapiId(1), VapiId(2)}, organizationId \in Orgs :
        LET data == <<"data", wsSeq + 1>>
        IN Broadcast(BroadcastTranscriptUpdate(ioInstance, callId,
                                               organizationId, data), data)

CallBroadcastCallStatus ==
    \E callId \in {VapiId(1), VapiId(2)}, organizationId \in Orgs :
        LET data == <<"data", wsSeq + 1>>
        IN Broadcast(BroadcastCallStatus(ioInstance, callId, organizationId,
                                         data), data)

WsNext ==
    \/ InitializeWebSocketManager
    \/ CallBroadcastToOrganization
    \/ CallBroadcastToCall
    \/ CallBroadcastTranscriptUpdate
    \/ CallBroadcastCallStatus

(***************************************************************************)
(* Vapi webhook endpoint: src/unnamed/part_004 (voice/webhook-handler.ts)  *)
(* and the route POST /webhooks/vapi of src/src/index.ts                   *)
(***************************************************************************)

\* event.data of a webhook event, with no field given.
NoEventData ==
    [durationSeconds |-> NoNum, transcript |-> Undefined,
     recordingUrl |-> Undefined, cost |-> NoNum, costBreakdown |-> Undefined,
     reason |-> Undefined, functionName |-> Undefined, parameters |-> FALSE]

\* A request body as express.json leaves it in req.body: a parsed object
\* {type, callId, timestamp, data}, or undefined.
Event(type, callId, timestamp, hasData, data) ==
    [defined |-> TRUE, type |-> type, callId |-> callId,
     timestamp |-> timestamp, hasData |-> hasData, data |-> data]

EmptyObject == Event(Undefined, NoId, Undefined, FALSE, NoEventData)
UndefinedBody == [EmptyObject EXCEPT !.defined = FALSE]

\* The data of the call.ended events the requests are drawn from: no field,
\* every field, the transcript only, every field but the transcript and the
\* cost breakdown, and fields that are given but falsy (0 and '').
EndedData ==
    { NoEventData,
      [NoEventData EXCEPT !.durationSeconds = <<30>>, !.transcript = "Hi Ann",
          !.recordingUrl = "rec.mp3", !.cost = <<2>>, !.costBreakdown = "llm:2"],
      [NoEventData EXCEPT !.transcript = "Hi Ann"],
      [NoEventData EXCEPT !.durationSeconds = <<30>>,
          !.recordingUrl = "rec.mp3", !.cost = <<2>>],
      [NoEventData EXCEPT !.durationSeconds = <<0>>, !.transcript = "",
          !.recordingUrl = "", !.cost = <<0>>] }

\* The events the requests are drawn from.
Events ==
    {Event("call.started", id, "t1", TRUE, NoEventData) :
        id \in {VapiId(1), VapiId(0)}}
    \cup {Event("call.answered", VapiId(1), "t1", TRUE, NoEventData)}
    \cup {Event("call.ended", VapiId(1), "t2", TRUE, data) : data \in EndedData}
    \cup {Event("call.ended", VapiId(0), "t2", TRUE,
                [NoEventData EXCEPT !.transcript = "Hi Ann"]),
          Event("call.ended", VapiId(1), "t2", FALSE, NoEventData)}
    \cup {Event("call.failed", VapiId(1), "t3", TRUE,
                [NoEventData EXCEPT !.reason = reason]) :
             reason \in {"no-answer", "error"}}
    \cup {Event("function.called", VapiId(1), "t1", TRUE,
                [NoEventData EXCEPT !.functionName = "schedule_follow_up",
                                    !.parameters = parameters]) :
             parameters \in BOOLEAN}
    \cup {Event("transcript.updated", VapiId(1), "t1", TRUE,
                [NoEventData EXCEPT !.transcript = "Hi"]),
          Event("call.paused", VapiId(1), "t1", TRUE, NoEventData)}

\* A request's body as sent: JSON text of some content, written compactly
\* (as JSON.stringify writes it) or with other spacing; or no JSON at all.
RawBody(content, spacing) ==
    [json |-> TRUE, content |-> content, spacing |-> spacing]
NoJsonBody == [json |-> FALSE, content |-> EmptyObject, spacing |-> "compact"]

\* express.json(): req.body of a JSON request is the parsed content.  For a
\* request without JSON it is {} or is left undefined (by the version of the
\* framework).
ParsedBodies(raw) ==
    IF raw.json THEN {raw.content} ELSE {EmptyObject, UndefinedBody}

\* JSON.stringify(req.body): the compact text of the parsed content, or
\* undefined for an undefined body.
JsonStringify(body) ==
    IF body.defined THEN RawBody(body, "compact")
                    ELSE [NoJsonBody EXCEPT !.content = UndefinedBody]

\* crypto.createHmac('sha256', secret).update(payload).digest('hex')
Hmac(secret, payload) == <<"hmac-sha256", secret, payload>>

\* The x-vapi-signature header: absent, or some text.
NoSignature == <<>>
SignatureKinds == {"none", "ofRaw", "ofParsed", "otherSecret", "garbage"}
SignatureHeader(kind, raw, secret) ==
    CASE kind = "none" -> NoSignature
      [] kind = "ofRaw" -> Hmac(secret, raw)
      [] kind = "ofParsed" -> Hmac(secret, RawBody(raw.content, "compact"))
      [] kind = "otherSecret" -> Hmac("guess", raw)
      [] OTHER -> <<"garbage">>

\* The requests.  Without a configured secret: every event, compact and
\* unsigned, and a request without JSON.  With a configured secret: two
\* events under every spacing and signature, and a request without JSON,
\* unsigned or signed.
GateEvents ==
    {Event("call.answered", VapiId(1), "t1", TRUE, NoEventData),
     Event("call.ended", VapiId(1), "t2", TRUE,
           [NoEventData EXCEPT !.transcript = "Hi Ann"])}
Requests(secret) ==
    IF secret = ""
    THEN {[raw |-> RawBody(event, "compact"), kind |-> "none"] : event \in Events}
         \cup {[raw |-> NoJsonBody, kind |-> "none"]}
    ELSE {[raw |-> RawBody(event, spacing), kind |-> kind] :
             event \in GateEvents, spacing \in {"compact", "spaced"},
             kind \in SignatureKinds}
         \cup {[raw |-> NoJsonBody, kind |-> kind] : kind \in {"none", "ofRaw"}}

\* verifySignature: timingSafeEqual throws for buffers of different lengths,
\* update throws for an undefined payload; the error is caught and the
\* answer is false.
VerifySignature(payload, signature, secret) ==
    /\ payload.json
    /\ Len(signature) = Len(Hmac(secret, payload))
    /\ signature = Hmac(secret, payload)

\* verifyWebhookMiddleware: "next", or the status it responds with.
VerifyWebhookMiddleware(body, signature, secret) ==
    IF secret = "" THEN "next"
    ELSE IF signature = NoSignature THEN "401"
    ELSE IF ~VerifySignature(JsonStringify(body), signature, secret)
         THEN "401"
    ELSE "next"

\* The methods of the CallManager class.
CallManagerMethods ==
    {"makeCall", "updateCallStatus", "analyzeCallTranscript", "cancelCall",
     "extractFirstMessage"}

\* What a handler did: the tables afterwards, whether an error was caught
\* while processing, the updateCallStatus call it made and how the
\* transcript analysis went.
NoUpdate == [called |-> FALSE, vapiCallId |-> NoId, status |-> Null,
             data |-> NoData]
Processed(calls, acts, failed, update, analysis) ==
    [calls |-> calls, acts |-> acts, failed |-> failed, update |-> update,
     updateThrew |-> FALSE, analysis |-> analysis, broadcasts |-> {}]

\* The broadcastCallStatus(event.callId, call.organizationId, ...) calls a
\* handler makes after `const call = await callManager.getCall(event.callId)`
\* and `if (call)`: none when the statements before them threw.
BroadcastsAfterGetCall(calls, event, threw) ==
    IF threw \/ "getCall" \notin CallManagerMethods THEN {}
    ELSE {[callId |-> event.callId, organizationId |-> row.organization_id] :
             row \in {r \in calls : /\ r.external_call_id # NoId
                                    /\ r.external_call_id = event.callId}}

\* A handler that calls updateCallStatus(event.callId, status, data) and
\* then callManager.getCall(event.callId): CallManager has no such method,
\* the call throws a TypeError, which the handler catches and logs as it
\* does an error of updateCallStatus; the broadcast after it is not reached.
UpdateThenBroadcast(calls, acts, event, status, data, env) ==
    LET done == UpdateCallStatus(calls, acts, event.callId, status, data, env)
    IN [Processed(done.calls, done.acts,
                  done.threw \/ "getCall" \notin CallManagerMethods,
                  [called |-> TRUE, vapiCallId |-> event.callId,
                   status |-> status, data |-> data],
                  done.analysis)
        EXCEPT !.updateThrew = done.threw,
               !.broadcasts = BroadcastsAfterGetCall(done.calls, event,
                                                     done.threw)]

\* handleCallStarted
HandleCallStarted(calls, acts, event, env) ==
    UpdateThenBroadcast(calls, acts, event, "ringing", NoData, env)

\* handleCallAnswered
HandleCallAnswered(calls, acts, event, env) ==
    UpdateThenBroadcast(calls, acts, event, "in-progress",
        [NoData EXCEPT !.answeredAt = event.timestamp], env)

\* handleCallEnded: event.data is read first (a TypeError without data).
HandleCallEnded(calls, acts, event, env) ==
    IF ~event.hasData THEN Processed(calls, acts, TRUE, NoUpdate, "none")
    ELSE UpdateThenBroadcast(calls, acts, event, "completed",
             [NoData EXCEPT !.endedAt = event.timestamp,
                 !.durationSeconds = event.data.durationSeconds,
                 !.transcript = event.data.transcript,
                 !.recordingUrl = event.data.recordingUrl,
                 !.cost = event.data.cost,
                 !.costBreakdown = event.data.costBreakdown], env)

\* handleCallFailed
HandleCallFailed(calls, acts, event, env) ==
    IF ~event.hasData THEN Processed(calls, acts, TRUE, NoUpdate, "none")
    ELSE UpdateThenBroadcast(calls, acts, event,
             IF event.data.reason = "no-answer" THEN "no-answer" ELSE "failed",
             [NoData EXCEPT !.endedAt = event.timestamp], env)

\* handleFunctionCalled: logging only; reading event.data.parameters.date
\* without parameters is a TypeError, caught.
HandleFunctionCalled(calls, acts, event, env) ==
    Processed(calls, acts,
        \/ ~event.hasData
        \/ /\ event.data.functionName = "schedule_follow_up"
           /\ ~event.data.parameters,
        NoUpdate, "none")

\* handleTranscriptUpdated: callManager.getCall throws before any broadcast.
HandleTranscriptUpdated(calls, acts, event, env) ==
    [Processed(calls, acts,
        ~event.hasData \/ "getCall" \notin CallManagerMethods,
        NoUpdate, "none")
     EXCEPT !.broadcasts = BroadcastsAfterGetCall(calls, event, ~event.hasData)]

\* A mutant of the responses: a processing error is answered with 500.
WebhookResponsesFailLoud(failed) == IF failed THEN <<500>> ELSE <<200>>

\* The responses handleVapiWebhook sends: res.status(200) at the end of the
\* try block, or res.status(200) in its catch block.
WebhookResponses(failed) == <<200>>

\* handleVapiWebhook: the dispatch on event.type.  An undefined body makes
\* event.type a TypeError, caught by the handler's own catch block.
HandleVapiWebhook(calls, acts, event, env) ==
    IF ~event.defined THEN Processed(calls, acts, TRUE, NoUpdate, "none")
    ELSE CASE event.type = "call.started" ->
                 HandleCallStarted(calls, acts, event, env)
           [] event.type = "call.answered" ->
                 HandleCallAnswered(calls, acts, event, env)
           [] event.type = "call.ended" ->
                 HandleCallEnded(calls, acts, event, env)
           [] event.type = "call.failed" ->
                 HandleCallFailed(calls, acts, event, env)
           [] event.type = "function.called" ->
                 HandleFunctionCalled(calls, acts, event, env)
           [] event.type = "transcript.updated" ->
                 HandleTranscriptUpdated(calls, acts, event, env)
           [] OTHER -> Processed(calls, acts, FALSE, NoUpdate, "none")

\* The calls the webhooks are about: one made for a contact, whose activity
\* row exists, and one whose external call id was never saved.
SeedCallInput == [contactId |-> ContactId(1), toNumber |-> "+1555",
                  script |-> ScriptGreeting]
SeedVoiceCalls ==
    { [InsertedCall(1, SeedCallInput, "org1", ScriptGreeting)
          EXCEPT !.external_call_id = VapiId(1)],
      InsertedCall(2, [SeedCallInput EXCEPT !.contactId = NoId], "org2",
                   ScriptGreeting) }
SeedCallActivities ==
    { InsertedCallActivity(4, SeedCallInput, "org1", "u1", CallId(1), VapiId(1)) }

NoHttp ==
    [seen |-> FALSE, raw |-> NoJsonBody, signature |-> NoSignature,
     responses |-> <<>>, handlerRan |-> FALSE, failed |-> FALSE,
     update |-> NoUpdate, updateThrew |-> FALSE, matched |-> FALSE,
     analysis |-> "none"]

\* The webhook secret is read from the environment once, at startup; it
\* defaults to the empty text.
HookInit ==
    /\ webhookSecret \in {"", "s3cret"}
    /\ lastHttp = NoHttp

\* What is kept of a request that handleVapiWebhook handled; matched says
\* whether the UPDATE of updateCallStatus found a row.
Handled(raw, signature, done) ==
    [seen |-> TRUE, raw |-> raw, signature |-> signature,
     responses |-> WebhookResponses(done.failed),
     handlerRan |-> TRUE, failed |-> done.failed,
     update |-> done.update,
     updateThrew |-> done.updateThrew,
     matched |-> \E row \in voiceCalls :
                    /\ done.update.called
                    /\ row.external_call_id # NoId
                    /\ row.external_call_id = done.update.vapiCallId,
     analysis |-> done.analysis]

\* POST /webhooks/vapi: express.json, verifyWebhookMiddleware, then
\* handleVapiWebhook when the middleware calls next().
PostWebhooksVapi ==
    \E request \in Requests(webhookSecret) :
      \E body \in ParsedBodies(request.raw), env \in EnvsOf(request.raw.content) :
        LET signature == SignatureHeader(request.kind, request.raw, webhookSecret)
            gate == VerifyWebhookMiddleware(body, signature, webhookSecret)
            done == HandleVapiWebhook(voiceCalls, activities, body, env)
        IN /\ IF gate = "next"
              THEN /\ voiceCalls' = done.calls
                   /\ activities' = done.acts
                   /\ wsEmitted' = wsEmitted \cup UNION
                        {BroadcastCallStatus(ioInstance, b.callId,
                             b.organizationId, <<"status">>).emits :
                           b \in done.broadcasts}
                   /\ lastHttp' = Handled(request.raw, signature, done)
              ELSE /\ UNCHANGED <<voiceCalls, activities, wsEmitted>>
                   /\ lastHttp' =
                        [NoHttp EXCEPT !.seen = TRUE, !.raw = request.raw,
                            !.signature = signature, !.responses = <<401>>]
           /\ UNCHANGED <<webhookSecret, notHookVars>>

\* POST /webhooks/vapi by the platform, about a call it has placed for a
\* makeCall in progress or finished: the platform knows the call from the
\* moment it answers vapiClient.makeCall.  (No webhook secret is configured.)
PlatformWebhook(c) ==
    /\ voiceOps[c].vapiId # NoId
    /\ webhookSecret = ""
    /\ \E type \in {"call.started", "call.answered"} :
          LET event == Event(type, voiceOps[c].vapiId, "t1", TRUE, NoEventData)
              done == HandleVapiWebhook(voiceCalls, activities, event, "ok")
          IN /\ voiceCalls' = done.calls
             /\ activities' = done.acts
             /\ wsEmitted' = wsEmitted \cup UNION
                  {BroadcastCallStatus(ioInstance, b.callId,
                       b.organizationId, <<"status">>).emits :
                     b \in done.broadcasts}
             /\ lastHttp' = Handled(RawBody(event, "compact"), NoSignature, done)
    /\ UNCHANGED <<webhookSecret, notHookVars>>

\* makeCall of the call manager, with the webhooks of the platform between
\* its awaits.
RaceNext ==
    \E c \in Callers :
        \/ MakeCallLookup(c)
        \/ MakeCallGenerate(c)
        \/ MakeCallInsert(c)
        \/ MakeCallDial(c)
        \/ MakeCallSaveId(c)
        \/ MakeCallActivity(c)
        \/ PlatformWebhook(c)

HookNext == PostWebhooksVapi

(***************************************************************************)
(* GraphQL requests: the context function (src/unnamed/part_002) and the   *)
(* order in which each resolver of src/src/graphql/resolvers.ts reads      *)
(* context.auth, issues statements and calls other services                *)
(***************************************************************************)

\* context.auth of a request without a verified principal.
NoAuth == [id |-> Null, organizationId |-> Null]

\* A statement issued with db.queryWithContext(
\* context.auth.user.organizationId, ...): the argument is evaluated, and
\* throws a TypeError when context.auth is null, before the call is made.
DbStep == [kind |-> "db", name |-> "db.queryWithContext"]

\* A call of another service; it does not read context.auth.
ExtStep(name) == [kind |-> "ext", name |-> name]

\* The resolvers that read or write tenant data.
TenantQueries ==
    {"contact", "contacts", "contactsCount", "company", "companies", "deal",
     "deals", "activity", "activities", "campaign", "campaigns", "voiceCall",
     "voiceCalls"}
TenantMutations ==
    {"createContact", "updateContact", "deleteContact", "enrichContact",
     "makeCall", "cancelCall", "launchCampaign", "pauseCampaign",
     "resumeCampaign", "cancelCampaign"}
TenantResolvers == TenantQueries \cup TenantMutations

\* The awaited calls of a resolver, in program order; a resolver with a
\* conditional call has one sequence without it and one with it.
ResolverSteps(resolver) ==
    CASE resolver = "health" -> {<<ExtStep("healthCheckAll")>>}
      [] resolver = "createContact" ->
            {<<DbStep>>, <<DbStep, ExtStep("graphRAGClient.storeDocument")>>}
      [] resolver = "enrichContact" ->
            {<<DbStep, ExtStep("graphRAGClient.enrichContact"), DbStep>>}
      [] resolver = "makeCall" ->
            {<<ExtStep("orchestrationClient.execute"), DbStep>>,
             <<ExtStep("orchestrationClient.execute"), DbStep, DbStep>>}
      [] resolver = "launchCampaign" ->
            {<<DbStep, ExtStep("orchestrationClient.execute"), DbStep>>}
      [] OTHER -> {<<DbStep>>}

\* The step reads context.auth.user before it is issued.
ReadsAuth(step) == step.kind = "db"

\* What a resolver run can come to with the given context.auth: the calls
\* it issued, and whether it returned or threw.  A run ends by returning
\* after its last step, or by throwing at a step: a step that reads
\* context.auth throws unissued when auth is null; an issued step can fail;
\* a resolver that finds no row throws after the step.
ResolverRuns(steps, auth) ==
    LET Throws(i) == auth = NoAuth /\ ReadsAuth(steps[i])
        Ends == {n \in 1..Len(steps) : \A i \in 1..(n - 1) : ~Throws(i)}
        Issued(n) == [i \in 1..n |-> steps[i].name]
    IN { [effects |-> Issued(IF Throws(n) THEN n - 1 ELSE n),
          result |-> "threw"] : n \in Ends }
       \cup { [effects |-> Issued(n), result |-> "returned"] :
                n \in {m \in Ends : m = Len(steps) /\ ~Throws(m)} }

NoGql == [pc |-> "idle", header |-> FALSE, verify |-> "none", auth |-> NoAuth,
          resolver |-> "none", effects |-> <<>>, result |-> "none"]

GqlInit == lastGql = NoGql

\* The context function of a request: without an Authorization header auth
\* is null; otherwise authClient.verifyToken answers a principal, answers
\* null (token not valid, or 401), or throws, and auth is null in the
\* latter two cases.
ApolloContext ==
    /\ lastGql.pc \in {"idle", "done"}
    /\ \/ lastGql' = [NoGql EXCEPT !.pc = "resolve"]
       \/ \E verify \in {"invalid", "threw"} :
             lastGql' = [NoGql EXCEPT !.pc = "resolve", !.header = TRUE,
                                      !.verify = verify]
       \/ \E principal \in Principals :
             lastGql' = [NoGql EXCEPT !.pc = "resolve", !.header = TRUE,
                                      !.verify = "principal", !.auth = principal]
    /\ UNCHANGED notGqlVars

\* The resolver the operation names runs with the context.
RunResolver ==
    /\ lastGql.pc = "resolve"
    /\ \E resolver \in TenantResolvers \cup {"health"} :
       \E steps \in ResolverSteps(resolver) :
       \E run \in ResolverRuns(steps, lastGql.auth) :
          lastGql' = [lastGql EXCEPT !.pc = "done", !.resolver = resolver,
                                     !.effects = run.effects,
                                     !.result = run.result]
    /\ UNCHANGED notGqlVars

GqlNext == ApolloContext \/ RunResolver

(***************************************************************************)
(* The mutations of src/src/graphql/resolvers.ts on seeded tables, each    *)
(* with its outcome, and CallManager.cancelCall of src/src/voice/index.ts  *)
(***************************************************************************)

\* Bound: mutations made.
MaxMutations == 2

\* UpdateContactInput, with no field given.  (Of the fifteen optional fields
\* the model has the five whose columns it has; the others are handled by
\* the same pattern.)
NoUpdateInput ==
    [firstName |-> Undefined, lastName |-> Undefined, email |-> Undefined,
     leadStatus |-> Undefined, leadScore |-> NoNum]

\* The inputs updateContact is called with: no field; one field; a field
\* given as null next to a field with a value; a number and a text.
UpdateContactInputs ==
    { NoUpdateInput,
      [NoUpdateInput EXCEPT !.email = "ann@new.io"],
      [NoUpdateInput EXCEPT !.firstName = Null, !.leadStatus = "qualified"],
      [NoUpdateInput EXCEPT !.lastName = "Lee", !.leadScore = <<50>>] }

\* if (input.x !== undefined) updates.push('x = $n'): the columns of the
\* SET clause.
SetClause(input) ==
    {column \in {"first_name", "last_name", "email", "lead_status",
                 "lead_score"} :
        CASE column = "first_name" -> input.firstName # Undefined
          [] column = "last_name" -> input.lastName # Undefined
          [] column = "email" -> input.email # Undefined
          [] column = "lead_status" -> input.leadStatus # Undefined
          [] column = "lead_score" -> input.leadScore # NoNum}

\* CURRENT_TIMESTAMP of a statement on the table: a time later than every
\* time the table holds.
CurrentTimestamp(rows) ==
    IF rows = {} THEN 1
    ELSE 1 + (CHOOSE t \in {row.updated_at : row \in rows} :
                 \A row \in rows : row.updated_at <= t)

\* The row after UPDATE contacts SET <updates>, updated_at =
\* CURRENT_TIMESTAMP.
UpdatedContact(row, input, now) ==
    [row EXCEPT
       !.updated_at = now,
       !.first_name = IF "first_name" \in SetClause(input)
                      THEN input.firstName ELSE @,
       !.last_name = IF "last_name" \in SetClause(input)
                     THEN input.lastName ELSE @,
       !.email = IF "email" \in SetClause(input) THEN input.email ELSE @,
       !.lead_status = IF "lead_status" \in SetClause(input)
                       THEN input.leadStatus ELSE @,
       !.lead_score = IF "lead_score" \in SetClause(input)
                      THEN input.leadScore[1] ELSE @]

\* The contact ids the mutations are called with: a live contact of org1,
\* a soft-deleted one, a live contact of org2, and an unknown id.
ContactIds == {ContactId(1), ContactId(2), ContactId(3), ContactId(9)}

NoMutation ==
    [name |-> "none", auth |-> NoAuth, id |-> NoId, input |-> NoUpdateInput,
     dbFailed |-> FALSE, storeCalled |-> FALSE, storeThrew |-> FALSE,
     result |-> "none", value |-> FALSE, failed |-> "none",
     executionId |-> NoId]

MutInit ==
    /\ lastMutation = NoMutation
    /\ vapiCancels = {}
    /\ mutSeq = 0

\* What the catch block of createContact leaves of the table when
\* storeDocument throws: the INSERT was committed when queryWithContext
\* returned, and the catch block only logs and rethrows.
AfterStoreFailureRolledBack(rows, contact) == rows \ {contact}

AfterStoreFailure(rows, contact) == rows

\* Mutation.createContact, as a whole: the INSERT (which can throw), the
\* store call when the contact has an email or a phone (which can throw),
\* and the answer: the row, or 'Failed to create contact'.
CreateContact ==
    /\ mutSeq < MaxMutations
    /\ mutSeq' = mutSeq + 1
    /\ \E auth \in Principals, input \in CreateContactInputs,
          dbFails \in BOOLEAN, storeThrows \in BOOLEAN :
          LET contact == InsertedContact(Cardinality(contacts) + 1, input, auth)
              storeCalled == ~dbFails /\ StoresInSearchIndex(contact)
              storeThrew == storeCalled /\ storeThrows
              inserted == contacts \cup {contact}
          IN /\ storeThrows => storeCalled
             /\ contacts' = IF dbFails THEN contacts
                            ELSE IF storeThrew
                                 THEN AfterStoreFailure(inserted, contact)
                                 ELSE inserted
             /\ createdRows' = IF dbFails THEN createdRows
                               ELSE createdRows \cup {contact}
             /\ storeCalls' = IF storeCalled THEN storeCalls \cup {contact.id}
                                             ELSE storeCalls
             /\ lastMutation' = [NoMutation EXCEPT !.name = "createContact",
                   !.auth = auth, !.id = contact.id, !.dbFailed = dbFails,
                   !.storeCalled = storeCalled, !.storeThrew = storeThrew,
                   !.result = IF dbFails \/ storeThrew THEN "threw"
                                                        ELSE "returned"]
    /\ UNCHANGED <<activities, voiceCalls, vapiCancels, notMutVars>>

\* Mutation.updateContact: the SET clause is built from the fields that are
\* not undefined; with no such field the statement reads 'SET , updated_at
\* = ...', which the database rejects.  No row returned: 'Contact not
\* found'.  Every error is answered 'Failed to update contact'.
UpdateContact ==
    /\ mutSeq < MaxMutations
    /\ mutSeq' = mutSeq + 1
    /\ \E auth \in Principals, id \in ContactIds,
          input \in UpdateContactInputs, dbFails \in BOOLEAN :
          LET malformed == SetClause(input) = {}
              where == {row \in contacts :
                          row.id = id /\ row.deleted_at = Null}
              returned == Rls(contacts, auth.organizationId) \cap where
              threw == dbFails \/ malformed \/ returned = {}
          IN /\ contacts' =
                   IF dbFails \/ malformed THEN contacts
                   ELSE UpdateWithContext(contacts, auth.organizationId, where,
                           [row \in contacts |->
                               UpdatedContact(row, input,
                                              CurrentTimestamp(contacts))])
             /\ lastMutation' = [NoMutation EXCEPT !.name = "updateContact",
                   !.auth = auth, !.id = id, !.input = input,
                   !.dbFailed = dbFails,
                   !.result = IF threw THEN "threw" ELSE "returned"]
    /\ UNCHANGED <<activities, voiceCalls, storeCalls, createdRows,
                   vapiCancels, notMutVars>>

\* The call ids the cancellations are called with: a call of org1, a call
\* of org2, and an unknown id.
CallIds == {CallId(1), CallId(2), CallId(9)}

\* Mutation.cancelCall: one UPDATE of the call row under the caller's
\* tenant context; the answer is rowCount > 0.  The resolver makes no
\* request of the voice platform and does not call CallManager.cancelCall.
CancelCall ==
    /\ mutSeq < MaxMutations
    /\ mutSeq' = mutSeq + 1
    /\ \E auth \in Principals, callId \in CallIds, dbFails \in BOOLEAN :
          LET where == {row \in voiceCalls : row.id = callId}
              rowCount == Cardinality(Rls(voiceCalls, auth.organizationId)
                                         \cap where)
          IN /\ voiceCalls' =
                   IF dbFails THEN voiceCalls
                   ELSE UpdateWithContext(voiceCalls, auth.organizationId, where,
                           [row \in voiceCalls |->
                               [row EXCEPT !.status = "cancelled",
                                           !.ended_at = "now"]])
             /\ lastMutation' = [NoMutation EXCEPT !.name = "cancelCall",
                   !.auth = auth, !.id = callId, !.dbFailed = dbFails,
                   !.result = IF dbFails THEN "threw" ELSE "returned",
                   !.value = ~dbFails /\ rowCount > 0]
    /\ UNCHANGED <<contacts, activities, storeCalls, createdRows,
                   vapiCancels, notMutVars>>

\* CallManager.cancelCall(callId, organizationId): the row is read under
\* the tenant context ('Call not found' without one); the voice platform
\* is asked to cancel when call.externalCallId is truthy; then
\* updateCallStatus(call.externalCallId || '', 'cancelled', {endedAt}).
\* The row read has the property external_call_id, so call.externalCallId
\* is undefined; '' is the external call id of no row.
CallManagerCancelCall ==
    /\ mutSeq < MaxMutations
    /\ mutSeq' = mutSeq + 1
    /\ \E auth \in Principals, callId \in CallIds :
          LET found == {row \in Rls(voiceCalls, auth.organizationId) :
                          row.id = callId}
              call == CHOOSE row \in found : TRUE
              externalCallId == JsProp(call, "externalCallId")
              updated == UpdateCallStatus(voiceCalls, activities,
                            IF externalCallId = Undefined THEN NoId
                                                          ELSE externalCallId,
                            "cancelled",
                            [NoData EXCEPT !.endedAt = "now"], "ok")
          IN /\ vapiCancels' = IF found # {} /\ externalCallId # Undefined
                               THEN vapiCancels \cup {externalCallId}
                               ELSE vapiCancels
             /\ voiceCalls' = IF found = {} THEN voiceCalls ELSE updated.calls
             /\ activities' = IF found = {} THEN activities ELSE updated.acts
             /\ lastMutation' = [NoMutation EXCEPT
                   !.name = "callManager.cancelCall",
                   !.auth = auth, !.id = callId,
                   !.result = IF found = {} THEN "threw" ELSE "returned"]
    /\ UNCHANGED <<contacts, storeCalls, createdRows, notMutVars>>

\* Mutation.deleteContact on the seeded table.
DeleteSeededContact ==
    /\ mutSeq < MaxMutations
    /\ mutSeq' = mutSeq + 1
    /\ \E auth \in Principals, id \in ContactIds :
          LET rowCount == Cardinality({row \in Rls(contacts, auth.organizationId) :
                                          row.id = id /\ row.deleted_at = Null})
          IN /\ contacts' = SoftDeleteContact(contacts, auth.organizationId, id)
             /\ lastMutation' = [NoMutation EXCEPT !.name = "deleteContact",
                   !.auth = auth, !.id = id, !.result = "returned",
                   !.value = rowCount > 0]
    /\ UNCHANGED <<activities, voiceCalls, storeCalls, createdRows,
                   vapiCancels, notMutVars>>

MutNext ==
    \/ CreateContact
    \/ UpdateContact
    \/ DeleteSeededContact
    \/ CancelCall
    \/ CallManagerCancelCall

(***************************************************************************)
(* Mutations that use the orchestration client, and the campaign           *)
(* mutations: src/src/graphql/resolvers.ts                                 *)
(***************************************************************************)

\* orchestrationResult.executionId of the n-th mutation.
ExecutionId(n) == <<"execution", n>>

\* The inputs of the makeCall mutation: without and with a contact.
MutationCallInputs ==
    [contactId : {NoId, ContactId(1)}, toNumber : {"+1555"},
     script : {ScriptGreeting}]

\* A mutant: the execution id is not written to the row.
PersistNoExecutionId(row, executionId) == row

\* The execution id as makeCall's INSERT (metadata) and launchCampaign's
\* UPDATE (orchestration_execution_id = $1) write it to the row.
PersistExecutionId(row, executionId) ==
    [row EXCEPT !.orchestration_execution_id = executionId]

\* The row the INSERT of the makeCall mutation creates: assistant_config
\* holds the script, metadata holds the execution id; external_call_id is
\* not among the columns of the statement.
InsertedCallByMutation(n, input, auth, executionId) ==
    PersistExecutionId(
        [InsertedCall(n, input, auth.organizationId, input.script)
            EXCEPT !.system_prompt = <<>>, !.first_message = "",
                   !.contact_id = NoId],
        executionId)

\* A mutant: the metadata of the activity names no call.
MetadataNoVoiceCallId(call) == NoId

\* metadata.voiceCallId of the activity row of the makeCall mutation: the
\* id of the call row the INSERT before it returned.
MetadataVoiceCallId(call) == call.id

\* Mutation.makeCall, as a whole: orchestrationClient.execute, then the
\* INSERT of the call row, then, with input.contactId, the INSERT of the
\* activity row, whose metadata holds voiceCallId.  Each of them can throw;
\* the catch block answers 'Failed to make call: ...'.
MakeCallMutation ==
    /\ mutSeq < MaxMutations
    /\ mutSeq' = mutSeq + 1
    /\ \E auth \in Principals, input \in MutationCallInputs,
          failed \in {"none", "execute", "insert call", "insert activity"} :
          LET executionId == ExecutionId(mutSeq + 1)
              executed == failed # "execute"
              call == InsertedCallByMutation(Cardinality(voiceCalls) + 1,
                                             input, auth, executionId)
              callInserted == executed /\ failed # "insert call"
              activityInserted == /\ callInserted
                                  /\ input.contactId # NoId
                                  /\ failed # "insert activity"
          IN /\ failed = "insert activity" => input.contactId # NoId
             /\ voiceCalls' = IF callInserted THEN voiceCalls \cup {call}
                                              ELSE voiceCalls
             /\ activities' =
                   IF activityInserted
                   THEN activities \cup
                          {InsertedCallActivity(Cardinality(activities) + 1,
                              input, auth.organizationId, auth.id,
                              MetadataVoiceCallId(call), NoId)}
                   ELSE activities
             /\ lastMutation' = [NoMutation EXCEPT !.name = "makeCall",
                   !.auth = auth,
                   !.id = IF callInserted THEN call.id ELSE NoId,
                   !.failed = failed,
                   !.executionId = IF executed THEN executionId ELSE NoId,
                   !.result = IF failed = "none" THEN "returned" ELSE "threw"]
    /\ UNCHANGED <<campaigns, notOrchVars>>

\* The campaign ids the mutations are called with: a draft campaign of
\* org1, a soft-deleted one, an active campaign of org2, and an unknown id.
CampaignIds == {<<"campaign", 1>>, <<"campaign", 2>>, <<"campaign", 3>>,
                <<"campaign", 9>>}

\* Mutation.launchCampaign, as a whole: SELECT ... WHERE id = $1 AND
\* deleted_at IS NULL ('Campaign not found' without a row), then
\* orchestrationClient.execute, then UPDATE ... SET status = 'active',
\* orchestration_execution_id = $1 WHERE id = $2.  Each of them can throw.
LaunchCampaign ==
    /\ mutSeq < MaxMutations
    /\ mutSeq' = mutSeq + 1
    /\ \E auth \in Principals, campaignId \in CampaignIds,
          failed \in {"none", "select", "execute", "update"} :
          LET executionId == ExecutionId(mutSeq + 1)
              found == {row \in Rls(campaigns, auth.organizationId) :
                          row.id = campaignId /\ row.deleted_at = Null}
              notFound == failed # "select" /\ found = {}
              executed == found # {} /\ failed \notin {"select", "execute"}
              updated == executed /\ failed # "update"
          IN /\ failed \in {"execute", "update"} => found # {}
             /\ campaigns' =
                   IF updated
                   THEN UpdateWithContext(campaigns, auth.organizationId,
                           {row \in campaigns : row.id = campaignId},
                           [row \in campaigns |->
                               PersistExecutionId([row EXCEPT !.status = "active"],
                                                  executionId)])
                   ELSE campaigns
             /\ lastMutation' = [NoMutation EXCEPT !.name = "launchCampaign",
                   !.auth = auth, !.id = campaignId,
                   !.failed = IF notFound THEN "not found" ELSE failed,
                   !.executionId = IF executed THEN executionId ELSE NoId,
                   !.result = IF updated THEN "returned" ELSE "threw"]
    /\ UNCHANGED <<voiceCalls, activities, notOrchVars>>

\* The campaigns table after UPDATE nexuscrm.campaigns SET status = ...
\* WHERE id = $1 under the caller's organization: the statement of
\* pauseCampaign, resumeCampaign and cancelCampaign, which has no condition
\* on deleted_at.
CampaignsWithStatus(auth, campaignId, status) ==
    UpdateWithContext(campaigns, auth.organizationId,
        {row \in campaigns : row.id = campaignId},
        [row \in campaigns |-> [row EXCEPT !.status = status]])

\* What pauseCampaign, resumeCampaign and cancelCampaign leave in
\* lastMutation: 'Campaign not found' when RETURNING * gave no row.
CampaignMutation(name, auth, campaignId, failed) ==
    LET returned == {row \in Rls(campaigns, auth.organizationId) :
                        row.id = campaignId}
    IN [NoMutation EXCEPT !.name = name, !.auth = auth, !.id = campaignId,
          !.failed = IF failed THEN "update"
                     ELSE IF returned = {} THEN "not found" ELSE "none",
          !.result = IF failed \/ returned = {} THEN "threw" ELSE "returned"]

\* Mutation.pauseCampaign
PauseCampaign ==
    /\ mutSeq < MaxMutations
    /\ mutSeq' = mutSeq + 1
    /\ \E auth \in Principals, campaignId \in CampaignIds, failed \in BOOLEAN :
          /\ campaigns' = IF failed THEN campaigns
                          ELSE CampaignsWithStatus(auth, campaignId, "paused")
          /\ lastMutation' =
                CampaignMutation("pauseCampaign", auth, campaignId, failed)
    /\ UNCHANGED <<voiceCalls, activities, notOrchVars>>

\* Mutation.resumeCampaign
ResumeCampaign ==
    /\ mutSeq < MaxMutations
    /\ mutSeq' = mutSeq + 1
    /\ \E auth \in Principals, campaignId \in CampaignIds, failed \in BOOLEAN :
          /\ campaigns' = IF failed THEN campaigns
                          ELSE CampaignsWithStatus(auth, campaignId, "active")
          /\ lastMutation' =
                CampaignMutation("resumeCampaign", auth, campaignId, failed)
    /\ UNCHANGED <<voiceCalls, activities, notOrchVars>>

\* Mutation.cancelCampaign
CancelCampaign ==
    /\ mutSeq < MaxMutations
    /\ mutSeq' = mutSeq + 1
    /\ \E auth \in Principals, campaignId \in CampaignIds, failed \in BOOLEAN :
          /\ campaigns' = IF failed THEN campaigns
                          ELSE CampaignsWithStatus(auth, campaignId, "cancelled")
          /\ lastMutation' =
                CampaignMutation("cancelCampaign", auth, campaignId, failed)
    /\ UNCHANGED <<voiceCalls, activities, notOrchVars>>

OrchNext ==
    \/ MakeCallMutation
    \/ LaunchCampaign
    \/ PauseCampaign
    \/ ResumeCampaign
    \/ CancelCampaign

(***************************************************************************)
(* Mutation.enrichContact, await by await: src/src/graphql/resolvers.ts    *)
(***************************************************************************)

\* What the catch block of enrichContact leaves: 'Failed to enrich contact'.
EnrichThrew(op) == [op EXCEPT !.pc = "done", !.result = "threw"]

\* The contacts table after UPDATE nexuscrm.contacts SET enrichment_data =
\* $1, ..., updated_at = CURRENT_TIMESTAMP WHERE id = $4 under the caller's
\* organization.
EnrichedContacts(rows, organizationId, id) ==
    UpdateWithContext(rows, organizationId,
        {row \in rows : row.id = id},
        [row \in rows |-> [row EXCEPT !.enrichment_data = "enriched",
                                      !.updated_at = CurrentTimestamp(rows)]])

\* enrichContact to the end of its first await: SELECT * FROM contacts
\* WHERE id = $1 AND deleted_at IS NULL; no row is 'Contact not found'.
EnrichSelect(s) ==
    /\ crmOps[s].pc = "idle"
    /\ \E auth \in Principals, id \in ContactIds, failed \in BOOLEAN :
          LET found == {row \in Rls(contacts, auth.organizationId) :
                           row.id = id /\ row.deleted_at = Null}
              op == [pc |-> "selected", name |-> "enrichContact",
                     auth |-> auth, id |-> id, result |-> "none",
                     returned |-> {}]
          IN crmOps' = [crmOps EXCEPT ![s] =
                           IF failed \/ found = {} THEN EnrichThrew(op) ELSE op]
    /\ UNCHANGED <<contacts, notEnrichVars>>

\* ... to the end of its second await: graphRAGClient.enrichContact(id),
\* which returns the enrichment or throws.
EnrichFetch(s) ==
    /\ crmOps[s].pc = "selected"
    /\ \E failed \in BOOLEAN :
          crmOps' = [crmOps EXCEPT ![s] =
                        IF failed THEN EnrichThrew(@)
                        ELSE [@ EXCEPT !.pc = "fetched"]]
    /\ UNCHANGED <<contacts, notEnrichVars>>

\* ... to its end: the UPDATE ... RETURNING *, and return
\* updateResult.rows[0].
EnrichUpdate(s) ==
    /\ crmOps[s].pc = "fetched"
    /\ \E failed \in BOOLEAN :
          LET op == crmOps[s]
              after == EnrichedContacts(contacts, op.auth.organizationId, op.id)
          IN /\ contacts' = IF failed THEN contacts ELSE after
             /\ crmOps' = [crmOps EXCEPT ![s] =
                   IF failed THEN EnrichThrew(op)
                   ELSE [op EXCEPT !.pc = "done", !.result = "returned",
                                   !.returned = after \ contacts]]
    /\ UNCHANGED notEnrichVars

\* enrichContact calls, with deleteContact calls between their awaits.
EnrichNext ==
    \/ \E s \in Sessions : EnrichSelect(s)
    \/ \E s \in Sessions : EnrichFetch(s)
    \/ \E s \in Sessions : EnrichUpdate(s)
    \/ DeleteSeededContact

\* contactsCount queries, with deleteContact calls between them.
CountNext ==
    \/ ContactsCount
    \/ DeleteSeededContact

(***************************************************************************)
(* WebSocket clients: the authentication middleware and the connection     *)
(* handler of src/src/index.ts                                             *)
(***************************************************************************)

\* Bound: WebSocket clients.
NumSockets == 2

SocketIds == 1..NumSockets

\* What a client's handshake presents: no token, a token the auth service
\* answers null for, a token whose verification throws, or a token of a
\* principal.
Handshakes ==
    [token : {"none", "invalid", "unverifiable"}, principal : {NoAuth}]
    \cup [token : {"valid"}, principal : Principals]

\* authClient.verifyToken(token): a principal, null, or an error.
VerifyToken(handshake) ==
    CASE handshake.token = "valid" -> [threw |-> FALSE, auth |-> handshake.principal]
      [] handshake.token = "invalid" -> [threw |-> FALSE, auth |-> NoAuth]
      [] OTHER -> [threw |-> TRUE, auth |-> NoAuth]

NoSocket == [state |-> "none", token |-> "none", auth |-> NoAuth, rooms |-> {}]

SockInit ==
    /\ sockets = [s \in SocketIds |-> NoSocket]
    /\ wsRelayed = {}

\* io.use(async (socket, next) => ...): next(new Error(...)) without a
\* token, when verifyToken answers null, and when it throws; otherwise the
\* principal is attached to the socket and next() is called.
IoUse(s) ==
    /\ sockets[s].state = "none"
    /\ \E handshake \in Handshakes :
          LET verified == VerifyToken(handshake)
              accepted == /\ handshake.token # "none"
                          /\ ~verified.threw
                          /\ verified.auth # NoAuth
          IN sockets' = [sockets EXCEPT ![s] =
                [NoSocket EXCEPT !.token = handshake.token,
                    !.state = IF accepted THEN "authenticated" ELSE "rejected",
                    !.auth = IF accepted THEN verified.auth ELSE NoAuth]]
    /\ UNCHANGED <<wsRelayed, notSockVars>>

\* io.on('connection', (socket) => ...): the socket joins the room of its
\* principal's organization.
OnConnection(s) ==
    /\ sockets[s].state = "authenticated"
    /\ sockets' = [sockets EXCEPT ![s].state = "connected",
          ![s].rooms = IF sockets[s].auth.organizationId # Null
                       THEN @ \cup {OrgRoom(sockets[s].auth.organizationId)}
                       ELSE @]
    /\ UNCHANGED <<wsRelayed, notSockVars>>

\* What a client sends with an event: any call id and any organization id.
ClientData == [callId : {CallId(1)}, organizationId : Orgs]

\* A mutant of the relay: the room is taken from the data the client sent.
RelayRoomOfData(auth, data) == OrgRoom(data.organizationId)

\* io.to(`org:${auth.user.organizationId}`)
RelayRoom(auth, data) == OrgRoom(auth.organizationId)

\* if (auth?.user.organizationId) io.to(room).emit(event, data): what has
\* been relayed once socket s has sent the event.
RelayedAfter(s, event, data) ==
    IF sockets[s].auth.organizationId # Null
    THEN wsRelayed \cup {[from |-> s, event |-> event, data |-> data,
                          room |-> RelayRoom(sockets[s].auth, data)]}
    ELSE wsRelayed

\* socket.on('call:status', ...)
OnCallStatus(s) ==
    /\ sockets[s].state = "connected"
    /\ \E data \in ClientData :
          wsRelayed' = RelayedAfter(s, "call:status", data)
    /\ UNCHANGED <<sockets, notSockVars>>

\* socket.on('campaign:progress', ...)
OnCampaignProgress(s) ==
    /\ sockets[s].state = "connected"
    /\ \E data \in ClientData :
          wsRelayed' = RelayedAfter(s, "campaign:progress", data)
    /\ UNCHANGED <<sockets, notSockVars>>

\* socket.on('disconnect', ...): the handler logs; a socket that has
\* disconnected is in no room.
OnDisconnect(s) ==
    /\ sockets[s].state = "connected"
    /\ sockets' = [sockets EXCEPT ![s].state = "disconnected", ![s].rooms = {}]
    /\ UNCHANGED <<wsRelayed, notSockVars>>

SockNext ==
    \E s \in SocketIds :
        \/ IoUse(s)
        \/ OnConnection(s)
        \/ OnCallStatus(s)
        \/ OnCampaignProgress(s)
        \/ OnDisconnect(s)

(***************************************************************************)
(* Startup: startServer of src/src/index.ts, Database.connect of           *)
(* src/src/utils/database.ts and healthCheckAll of src/src/clients/index.ts*)
(***************************************************************************)

\* How db.connect() ends: pool.connect() rejects, SELECT NOW() rejects, the
\* schema query answers no row, or the schema is there.
DbConnectOutcomes == {"connect failed", "query failed", "schema missing", "ok"}

\* Database.connect throws in every case but the last.
DbConnectThrows(outcome) == outcome # "ok"

\* What healthCheckAll() can answer: a rejected health check counts as
\* unhealthy, so every field is a boolean.
HealthReports ==
    [orchestration : BOOLEAN, mage : BOOLEAN, geo : BOOLEAN, auth : BOOLEAN,
     graphRAG : [postgres : BOOLEAN, neo4j : BOOLEAN, qdrant : BOOLEAN]]

\* allHealthy of healthCheckAll
AllHealthy(health) ==
    /\ health.orchestration
    /\ health.mage
    /\ health.graphRAG.postgres
    /\ health.graphRAG.neo4j
    /\ health.graphRAG.qdrant
    /\ health.geo
    /\ health.auth

NoHealth ==
    [orchestration |-> FALSE, mage |-> FALSE, geo |-> FALSE, auth |-> FALSE,
     graphRAG |-> [postgres |-> FALSE, neo4j |-> FALSE, qdrant |-> FALSE]]

\* A mutant of the startup check: only the auth service is required.
ExitsWhenAuthDown(health) == ~AllHealthy(health) /\ ~health.auth

\* The process.exit(1) calls of the health check of startServer.
ExitsOnHealth(health) ==
    ~AllHealthy(health) /\ (~health.auth \/ ~health.graphRAG.postgres)

\* Bound: how many signals (SIGTERM, SIGINT) the process receives.
NumShutdowns == 2
Shutdowns == 1..NumShutdowns

\* A gracefulShutdown call that has not started.
NoShutdown == [pc |-> "idle", signal |-> "none"]

\* isConnected is the field of Database, poolEnds counts the pool.end()
\* calls, shutdowns are the gracefulShutdown calls.
StartInit ==
    startup = [pc |-> "start", db |-> "none", health |-> NoHealth,
               mode |-> "none", exitedAt |-> "none",
               isConnected |-> FALSE, poolEnds |-> 0,
               shutdowns |-> [i \in Shutdowns |-> NoShutdown]]

\* await db.connect(): an error reaches the catch of startServer, which
\* calls process.exit(1).
StartDbConnect ==
    /\ startup.pc = "start"
    /\ \E outcome \in DbConnectOutcomes :
          startup' = IF DbConnectThrows(outcome)
                     THEN [startup EXCEPT !.pc = "exited", !.db = outcome,
                                          !.exitedAt = "database"]
                     ELSE [startup EXCEPT !.pc = "connected", !.db = outcome,
                                          !.isConnected = TRUE]
    /\ UNCHANGED notStartVars

\* await healthCheckAll() and the check that follows it.
StartHealthCheck ==
    /\ startup.pc = "connected"
    /\ \E health \in HealthReports :
          startup' = IF ExitsOnHealth(health)
                     THEN [startup EXCEPT !.pc = "exited", !.health = health,
                                          !.exitedAt = "health"]
                     ELSE [startup EXCEPT !.pc = "initializing",
                                          !.health = health,
                                          !.mode = IF AllHealthy(health)
                                                   THEN "healthy"
                                                   ELSE "degraded"]
    /\ UNCHANGED notStartVars

\* The rest of startServer up to httpServer.listen: the Express
\* application, the import of the webhook handler and apolloServer.start(),
\* which can reject.
StartListen ==
    /\ startup.pc = "initializing"
    /\ \E started \in BOOLEAN :
          startup' = IF started
                     THEN [startup EXCEPT !.pc = "listening"]
                     ELSE [startup EXCEPT !.pc = "exited",
                                          !.exitedAt = "initialization"]
    /\ UNCHANGED notStartVars

StartNext == StartDbConnect \/ StartHealthCheck \/ StartListen

(***************************************************************************)
(* Shutdown: gracefulShutdown of src/src/index.ts and Database.disconnect  *)
(* of src/src/utils/database.ts.  The handlers of SIGTERM and SIGINT are   *)
(* registered at the end of startServer; each signal starts a call of      *)
(* gracefulShutdown, and the calls interleave at their awaits.             *)
(***************************************************************************)

\* The position of gracefulShutdown call i.
ShutdownAt(i, pc) == startup.pc = "listening" /\ startup.shutdowns[i].pc = pc

\* A rejected gracefulShutdown is an unhandled rejection, whose handler
\* calls process.exit(1).
ShutdownRejected(i, at) ==
    [startup EXCEPT !.pc = "exited", !.exitedAt = at,
                    !.shutdowns[i].pc = "rejected"]

\* process.on(signal): gracefulShutdown runs to await flushPendingReports().
ShutdownReceive(i) ==
    /\ ShutdownAt(i, "idle")
    /\ \A j \in Shutdowns : j < i => startup.shutdowns[j].pc # "idle"
    /\ \E signal \in {"SIGTERM", "SIGINT"} :
          startup' = [startup EXCEPT !.shutdowns[i] =
                         [pc |-> "flushing", signal |-> signal]]
    /\ UNCHANGED notStartVars

\* flushPendingReports() resolves or rejects; then httpServer.close,
\* io.close, and await apolloServer.stop().
ShutdownStop(i) ==
    /\ ShutdownAt(i, "flushing")
    /\ \E flushed \in BOOLEAN :
          startup' = IF flushed
                     THEN [startup EXCEPT !.shutdowns[i].pc = "stopping"]
                     ELSE ShutdownRejected(i, "flush")
    /\ UNCHANGED notStartVars

\* if (!this.isConnected) return
DisconnectReturnsEarly(db) == ~db.isConnected

\* await db.disconnect(), to its await: it returns early, or calls
\* this.pool.end().  A pool that end() was called on rejects a second call
\* ("Called end on pool more than once"); disconnect logs and rethrows.
ShutdownDisconnect(i) ==
    /\ ShutdownAt(i, "stopping")
    /\ startup' =
          IF DisconnectReturnsEarly(startup)
          THEN [startup EXCEPT !.shutdowns[i].pc = "closed"]
          ELSE IF startup.poolEnds > 0
          THEN [ShutdownRejected(i, "disconnect")
                   EXCEPT !.poolEnds = @ + 1]
          ELSE [startup EXCEPT !.shutdowns[i].pc = "ending",
                               !.poolEnds = @ + 1]
    /\ UNCHANGED notStartVars

\* this.pool.end() resolves: isConnected = false, and disconnect returns.
ShutdownEnded(i) ==
    /\ ShutdownAt(i, "ending")
    /\ startup' = [startup EXCEPT !.shutdowns[i].pc = "closed",
                                  !.isConnected = FALSE]
    /\ UNCHANGED notStartVars

\* process.exit(0)
ShutdownExit(i) ==
    /\ ShutdownAt(i, "closed")
    /\ startup' = [startup EXCEPT !.pc = "exited", !.exitedAt = "shutdown",
                                  !.shutdowns[i].pc = "exited"]
    /\ UNCHANGED notStartVars

ShutdownNext ==
    \/ StartDbConnect
    \/ StartHealthCheck
    \/ StartListen
    \/ \E i \in Shutdowns :
          \/ ShutdownReceive(i)
          \/ ShutdownStop(i)
          \/ ShutdownDisconnect(i)
          \/ ShutdownEnded(i)
          \/ ShutdownExit(i)

(***************************************************************************)
(* Specifications                                                          *)
(***************************************************************************)

\* The subsystems a specification does not run, at their initial value.
VoiceIdle == voiceCalls = {} /\ VoiceOpsInit
HookIdle == webhookSecret = "" /\ lastHttp = NoHttp
OthersIdle == GqlInit /\ MutInit /\ SockInit /\ StartInit

\* The service after startup, no request made yet.
Init == DbInit /\ CrmInit /\ VoiceIdle /\ HookIdle /\ WsInit /\ OthersIdle

\* The same, with contacts created and soft-deleted earlier.
InitVoice ==
    /\ DbInit /\ CrmInitWith(SeedContacts, SeedActivities)
    /\ VoiceIdle /\ HookIdle /\ WsInit /\ OthersIdle

\* The same, with calls made earlier, and with or without a webhook secret
\* in the environment.
InitHook ==
    /\ DbInit
    /\ CrmInitWith(SeedContacts, SeedActivities \cup SeedCallActivities)
    /\ voiceCalls = SeedVoiceCalls /\ VoiceOpsInit
    /\ HookInit /\ WsInit /\ OthersIdle

\* The same, with no webhook secret, before a mutation is made.
InitMut ==
    /\ DbInit
    /\ CrmInitWith(SeedContacts, SeedActivities \cup SeedCallActivities)
    /\ voiceCalls = SeedVoiceCalls /\ VoiceOpsInit
    /\ HookIdle /\ WsInit /\ OthersIdle

SpecDb == Init /\ [][DbNext]_vars

SpecCrm == Init /\ [][CrmNext]_vars

\* makeCall, on a contacts table that holds live and soft-deleted rows.
SpecVoice == InitVoice /\ [][VoiceNext]_vars

\* The webhook endpoint, after calls were made.
SpecHook == InitHook /\ [][HookNext]_vars

\* The webhook endpoint of the listening service: startServer has called
\* initializeWebSocketManager(io), and no webhook secret is configured.
InitLive ==
    /\ DbInit
    /\ CrmInitWith(SeedContacts, SeedActivities \cup SeedCallActivities)
    /\ voiceCalls = SeedVoiceCalls /\ VoiceOpsInit
    /\ HookIdle /\ OthersIdle
    /\ ioInstance = "io" /\ wsSeq = 0
    /\ wsEmitted = {} /\ wsDropped = {} /\ wsRaised = {}

SpecLive == InitLive /\ [][HookNext]_vars

\* makeCall and the webhooks of the platform.
InitRace == InitVoice

SpecRace == InitRace /\ [][RaceNext]_vars

SpecWs == Init /\ [][WsNext]_vars

SpecGql == Init /\ [][GqlNext]_vars

\* The WebSocket clients.
SpecSock == Init /\ [][SockNext]_vars

\* The startup of the service.
SpecStart == Init /\ [][StartNext]_vars

\* The mutations, on tables that hold rows of two organizations.
SpecMut == InitMut /\ [][MutNext]_vars

\* The same tables, under the mutations that use the orchestration client
\* and the campaign mutations.
InitOrch == InitMut

SpecOrch == InitOrch /\ [][OrchNext]_vars

\* The same tables, under enrichContact and deleteContact.
InitEnrich == InitMut

SpecEnrich == InitEnrich /\ [][EnrichNext]_vars

\* The same tables, under contactsCount and deleteContact.
InitCount == InitMut

SpecCount == InitCount /\ [][CountNext]_vars

\* The startup of the service and its shutdown by signals.
InitShutdown == Init

SpecShutdown == InitShutdown /\ [][ShutdownNext]_vars

(***************************************************************************)
(* Claims about the database access layer                                  *)
(***************************************************************************)

\* The effects of request r's statements that are visible (committed).
VisibleEffects(r) == {m \in dbTable : m[1] = r}

\* C2: when the tenant-context statement or any statement of the callback
\* throws, ROLLBACK is issued, COMMIT is never issued for that transaction,
\* the caller gets an error, and no effect of any statement of the
\* transaction is visible afterwards.
C2_RollbackOnThrow ==
    \A r \in Reqs :
        reqs[r].cbThrew =>
            /\ "COMMIT" \notin reqs[r].issued
            /\ VisibleEffects(r) = {}
            /\ reqs[r].pc \in {"release", "done"} =>
                  /\ "ROLLBACK" \in reqs[r].issued
                  /\ reqs[r].result = "threw"

\* C2 witness: a transaction whose first data statement succeeded and whose
\* second threw has finished, while another transaction has committed.
C2_Witness ==
    \E r \in Reqs :
        /\ reqs[r].kind = "txn" /\ reqs[r].cbThrew /\ reqs[r].n = 2
        /\ reqs[r].pc = "done"
        /\ dbTable # {}

\* C10: every statement run through queryWithContext runs on a client no
\* other caller holds, inside the transaction (after BEGIN, before COMMIT),
\* after the tenant context was set, and with the tenant context equal to
\* the caller's own organization id, whatever the interleaving.
C10_StatementInOwnTenantContext ==
    \A run \in stmtRuns :
        run.kind = "qwc" =>
            /\ run.ctx = run.org
            /\ run.inTxn
            /\ ~run.shared
            /\ {"BEGIN", "SET"} \subseteq run.issued
            /\ "COMMIT" \notin run.issued

\* C10 witness: two queryWithContext calls for different organizations have
\* both run their statement and hold open transactions at the same time.
C10_Witness ==
    \E r, q \in Reqs :
        /\ reqs[r].kind = "qwc" /\ reqs[q].kind = "qwc"
        /\ reqs[r].org # reqs[q].org
        /\ reqs[r].pc = "commit" /\ reqs[q].pc = "commit"

\* The requests that hold client c: past pool.connect() and not yet past
\* client.release().
HoldersOf(c) ==
    {r \in Reqs : /\ reqs[r].client = c
                  /\ reqs[r].pc \in {"begin", "callback", "commit", "rollback",
                                     "release"}}

\* C30: transaction releases the client it acquired exactly once on every
\* path (COMMIT succeeded, the callback threw, BEGIN, COMMIT or ROLLBACK
\* failed): a client is checked out exactly while one transaction holds it,
\* and a transaction that has ended holds no client.
C30_ClientReleasedExactlyOnce ==
    /\ \A c \in Clients :
          Cardinality(HoldersOf(c)) = IF clients[c].busy THEN 1 ELSE 0
    /\ \A r \in Reqs :
          /\ reqs[r].pc \in {"begin", "callback", "commit", "rollback",
                              "release"} => reqs[r].client \in Clients
          /\ reqs[r].pc = "done" => reqs[r].client = 0

\* C30 witness: one transaction has ended after a failed BEGIN or COMMIT and
\* the ROLLBACK that followed, another after its callback threw, and every
\* client is back in the pool.
C30_Witness ==
    /\ \E r, q \in Reqs :
          /\ reqs[r].pc = "done" /\ reqs[r].result = "threw"
          /\ ~reqs[r].cbThrew /\ "ROLLBACK" \in reqs[r].issued
          /\ reqs[q].pc = "done" /\ reqs[q].cbThrew
    /\ \A c \in Clients : ~clients[c].busy

(***************************************************************************)
(* Claims about the GraphQL resolvers                                      *)
(***************************************************************************)

\* C1: whatever the filter fields, limit and offset, the answer of a list
\* resolver (contacts, companies, deals, activities, campaigns) holds only
\* rows whose deleted_at is null.
C1_ListsExcludeSoftDeleted ==
    \A i \in 1..Len(lastList.rows) : lastList.rows[i].deleted_at = Null

\* C1 witness: the contacts resolver has answered while the table held a
\* soft-deleted contact of the principal's organization.
C1_Witness ==
    /\ lastList.resolver = "contacts"
    /\ lastList.softDeleted > 0

\* The createContact call that inserted this row has not yet passed the
\* point of its store call.
StorePending(row) ==
    \E s \in Sessions :
        crmOps[s].pc = "createContact:inserted" /\ crmOps[s].contact.id = row.id

\* C7: createContact issues a search-index store call, after the insert, if
\* and only if the inserted contact has an email or a phone.
C7_StoreIffEmailOrPhone ==
    /\ \A id \in storeCalls : \E row \in createdRows : row.id = id
    /\ \A row \in createdRows :
          ~StorePending(row) =>
             (row.id \in storeCalls <=> (row.email # Null \/ row.phone # Null))

\* C7 witness: a contact with only a mobile number was created, the
\* mutation has ended, and no store call was made for it.
C7_Witness ==
    \E row \in createdRows :
        /\ row.email = Null /\ row.phone = Null /\ row.mobile # Null
        /\ ~StorePending(row)
        /\ row.id \notin storeCalls

(***************************************************************************)
(* Claims about the voice call manager                                     *)
(***************************************************************************)

\* The optional fields of updateCallStatus's data, and the column each one
\* is written to.
CallParams == {"answeredAt", "endedAt", "durationSeconds", "transcript",
               "recordingUrl", "cost", "costBreakdown"}
ColumnOf(p) ==
    CASE p = "answeredAt" -> "answered_at"
      [] p = "endedAt" -> "ended_at"
      [] p = "durationSeconds" -> "duration_seconds"
      [] p = "transcript" -> "transcript"
      [] p = "recordingUrl" -> "recording_url"
      [] p = "cost" -> "cost_usd"
      [] p = "costBreakdown" -> "cost_breakdown"

\* The update was given the field.
Supplied(data, p) ==
    IF p \in {"durationSeconds", "cost"} THEN data[p] # NoNum
                                         ELSE data[p] # Undefined

\* C3: a step changes one of answered_at, ended_at, duration_seconds,
\* transcript, recording_url, cost_usd, cost_breakdown of a call row only if
\* it is an updateCallStatus call for that row which was given that field,
\* and then to the value given; a field the update was not given keeps the
\* value an earlier update set.  Apart from these columns and status (and
\* the analysis columns), the row is as it was, and no row disappears.
C3_UnsuppliedFieldsUnchanged ==
    [][\A call \in voiceCalls :
          /\ \E row \in voiceCalls' : row.id = call.id
          /\ LET after == CHOOSE row \in voiceCalls' : row.id = call.id
                 update == lastHttp'.update
             IN /\ \A p \in CallParams :
                      after[ColumnOf(p)] # call[ColumnOf(p)] =>
                         /\ update.called
                         /\ update.vapiCallId = call.external_call_id
                         /\ Supplied(update.data, p)
                         /\ after[ColumnOf(p)] = update.data[p]
                /\ [after EXCEPT !.status = call.status,
                       !.answered_at = call.answered_at,
                       !.ended_at = call.ended_at,
                       !.duration_seconds = call.duration_seconds,
                       !.transcript = call.transcript,
                       !.recording_url = call.recording_url,
                       !.cost_usd = call.cost_usd,
                       !.cost_breakdown = call.cost_breakdown,
                       !.sentiment_overall = call.sentiment_overall] = call
      ]_vars

\* C3 witness: the last update of a call row gave no transcript, recording
\* url, duration or cost and set the status to 'failed', and the row still
\* holds the transcript, recording url, duration and cost of an earlier
\* update.
C3_Witness ==
    \E call \in voiceCalls :
        /\ lastHttp.update.called /\ lastHttp.matched /\ ~lastHttp.updateThrew
        /\ lastHttp.update.vapiCallId = call.external_call_id
        /\ lastHttp.update.status = "failed" /\ call.status = "failed"
        /\ lastHttp.update.data.transcript = Undefined
        /\ call.transcript = "Hi Ann" /\ call.recording_url = "rec.mp3"
        /\ call.duration_seconds = <<30>> /\ call.cost_usd = <<2>>
        /\ call.answered_at = "t1" /\ call.ended_at = "t3"

\* The contactId of a makeCall call matches no non-deleted contact row.
Unresolved(op) ==
    /\ op.input.contactId # NoId
    /\ ~\E row \in contacts :
           row.id = op.input.contactId /\ row.deleted_at = Null

\* C8: a makeCall call whose contactId matches no non-deleted contact row
\* makes no personalization request; the call row it inserts and the request
\* it makes to the voice platform hold the input script verbatim; and when
\* it returns, the row holds the external call id the platform answered with.
C8_UnresolvedContactScriptVerbatim ==
    \A c \in Callers :
        LET op == voiceOps[c]
        IN (op.pc # "idle" /\ Unresolved(op)) =>
              /\ ~op.generated
              /\ op.pc # "generate"
              /\ op.finalScript = op.input.script
              /\ \A row \in voiceCalls :
                    row.id = op.callId =>
                       /\ row.script = op.input.script
                       /\ row.system_prompt = op.input.script
              /\ \A request \in vapiRequests :
                    request.nexusCallId = op.callId =>
                       request.systemPrompt = op.input.script
              /\ op.result = "returned" =>
                    /\ op.vapiId # NoId
                    /\ \E request \in vapiRequests :
                          request.nexusCallId = op.callId
                    /\ \E row \in voiceCalls :
                          /\ row.id = op.callId
                          /\ row.external_call_id = op.vapiId

\* C8 witness: makeCall was called with the id of a soft-deleted contact and
\* has returned.
C8_Witness ==
    \E c \in Callers :
        /\ voiceOps[c].input.contactId = ContactId(2)
        /\ voiceOps[c].organizationId = "org1"
        /\ voiceOps[c].result = "returned"
        /\ \E row \in voiceCalls : row.external_call_id = voiceOps[c].vapiId

\* C9: after a call.ended webhook for a known call, a transcript analysis
\* was requested if and only if the event held a non-empty transcript, and
\* when the analysis ran to its end its result is in the call row and in
\* the activity row correlated with the call.
C9_AnalysisWrittenToCallAndActivity ==
    (/\ lastHttp.handlerRan
     /\ lastHttp.raw.content.type = "call.ended"
     /\ lastHttp.matched) =>
        LET transcript == lastHttp.update.data.transcript
            vapiCallId == lastHttp.update.vapiCallId
        IN /\ lastHttp.analysis # "none" <=> ~Falsy(transcript)
           /\ lastHttp.analysis = "returned" =>
                 /\ \A call \in voiceCalls :
                       call.external_call_id = vapiCallId =>
                          call.sentiment_overall = Sentiment(transcript)
                 /\ \A activity \in activities :
                       MetadataIs(activity, "vapiCallId", vapiCallId) =>
                          activity.sentiment = Sentiment(transcript)

(***************************************************************************)
(* Claims about the webhook endpoint                                       *)
(***************************************************************************)

\* C4: with a webhook secret configured, a request whose signature header
\* is missing or is not the HMAC-SHA256 of its body under the secret is
\* answered 401 and the handler is not run; with no secret configured every
\* request is passed on to the handler.
C4_SignatureGate ==
    lastHttp.seen =>
        /\ (/\ webhookSecret # ""
            /\ \/ lastHttp.signature = NoSignature
               \/ lastHttp.signature # Hmac(webhookSecret, lastHttp.raw))
              => (lastHttp.responses = <<401>> /\ ~lastHttp.handlerRan)
        /\ webhookSecret = "" => lastHttp.handlerRan

\* C5: for a request that reached handleVapiWebhook, whatever the event and
\* whatever went wrong while it was processed, exactly one response was
\* sent, with status 200.
C5_HandlerAlwaysResponds200 ==
    lastHttp.handlerRan => lastHttp.responses = <<200>>

\* C5 witness: the handler ran for a call.ended event of a known call, the
\* status update threw, and the response was 200.
C5_Witness ==
    /\ lastHttp.handlerRan
    /\ lastHttp.raw.content.type = "call.ended"
    /\ lastHttp.update.called /\ lastHttp.updateThrew /\ lastHttp.failed
    /\ lastHttp.responses = <<200>>

(***************************************************************************)
(* Claims about the WebSocket broadcast manager                            *)
(***************************************************************************)

\* C6: a broadcast made before initializeWebSocketManager has run raises
\* nothing and emits nothing, and its data is never emitted later, also not
\* after the manager is initialized.
C6_BroadcastBeforeInitDropped ==
    \A data \in wsDropped :
        /\ data \notin wsRaised
        /\ \A e \in wsEmitted : e.data # data

\* C6 witness: a broadcast was dropped, the manager was initialized
\* afterwards and a later broadcast was emitted.
C6_Witness ==
    /\ wsDropped # {}
    /\ ioInstance # Null
    /\ wsEmitted # {}

(***************************************************************************)
(* Claims about GraphQL requests                                           *)
(***************************************************************************)

\* C11: a request whose context.auth is null (no Authorization header, or
\* token verification answered null or threw) and that ran a tenant-scoped
\* resolver ended in an error, and the resolver issued no database
\* statement and no call of another service.
C11_NoPrincipalNoEffect ==
    (/\ lastGql.pc = "done"
     /\ lastGql.resolver \in TenantResolvers
     /\ lastGql.auth = NoAuth) =>
        /\ lastGql.result = "threw"
        /\ lastGql.effects = <<>>

\* The place of a status on initiated -> ringing -> in-progress -> {completed
\* | no-answer | busy | failed | voicemail | cancelled}.
StatusRank(status) ==
    CASE status = "initiated" -> 0
      [] status = "ringing" -> 1
      [] status = "in-progress" -> 2
      [] OTHER -> 3

\* C13: every step that changes the status of a call row moves it forward
\* along initiated -> ringing -> in-progress -> terminal: never backwards,
\* and never out of a terminal status.
C13_StatusMovesForward ==
    [][\A call \in voiceCalls :
          \A after \in voiceCalls' :
             (after.id = call.id /\ after.status # call.status) =>
                StatusRank(call.status) < StatusRank(after.status)
      ]_vars

(***************************************************************************)
(* Claims about the mutations                                              *)
(***************************************************************************)

\* The ids of the rows of a table.
RowIds(rows) == {row.id : row \in rows}

\* C12: no step removes a row: the ids in contacts, companies, deals,
\* activities, campaigns and voice_calls after a step include those before
\* it; and a deleteContact step leaves every contact row as it was but for
\* deleted_at.
C12_NoRowRemoved ==
    [][/\ RowIds(contacts) \subseteq RowIds(contacts')
       /\ RowIds(companies) \subseteq RowIds(companies')
       /\ RowIds(deals) \subseteq RowIds(deals')
       /\ RowIds(activities) \subseteq RowIds(activities')
       /\ RowIds(campaigns) \subseteq RowIds(campaigns')
       /\ RowIds(voiceCalls) \subseteq RowIds(voiceCalls')
       /\ lastMutation'.name = "deleteContact" =>
             \A row \in contacts :
                \E after \in contacts' :
                   [after EXCEPT !.deleted_at = row.deleted_at] = row
      ]_vars

\* C12 witness: deleteContact has soft-deleted a row, and the row is still
\* in the table.
C12_Witness ==
    /\ lastMutation.name = "deleteContact" /\ lastMutation.value
    /\ \E row \in contacts :
          row.id = lastMutation.id /\ row.deleted_at = "now"

\* The columns of a contact row, and the value an input gives a column.
ContactColumns == DOMAIN InsertedContact(1, AnnInput, UserOne)

InputValue(input, column) ==
    CASE column = "first_name" -> input.firstName
      [] column = "last_name" -> input.lastName
      [] column = "email" -> input.email
      [] column = "lead_status" -> input.leadStatus
      [] column = "lead_score" -> input.leadScore[1]

\* What the statement of C17 asks of one updateContact, called with input
\* for id by a principal of organization, on the table before and after.
UpdateContactAsStated(before, after, mutation) ==
    LET matched == {row \in before :
                      /\ row.id = mutation.id
                      /\ row.deleted_at = Null
                      /\ row.organization_id = mutation.auth.organizationId}
        present == SetClause(mutation.input)
    IN IF matched = {}
       THEN mutation.result = "threw" /\ after = before
       ELSE /\ mutation.result = "returned"
            /\ before \ matched \subseteq after
            /\ Cardinality(after) = Cardinality(before)
            /\ \A row \in matched : \E updated \in after :
                  /\ updated.id = row.id
                  /\ updated.updated_at # row.updated_at
                  /\ \A column \in present :
                        updated[column] = InputValue(mutation.input, column)
                  /\ \A column \in ContactColumns \ (present \cup {"updated_at"}) :
                        updated[column] = row[column]

\* C17: an updateContact that the database serves changes exactly the
\* columns whose input fields are present, and updated_at, of the live row
\* of the caller's organization with the given id, and leaves every other
\* column and row unchanged; when no such row exists it throws and
\* changes nothing.
C17_UpdateContactFrame ==
    [][(mutSeq' # mutSeq /\ lastMutation'.name = "updateContact"
                        /\ ~lastMutation'.dbFailed)
         => UpdateContactAsStated(contacts, contacts', lastMutation')]_vars

\* C17, for the inputs that name at least one field.
C17_FrameOfNonEmptyInputs ==
    [][(mutSeq' # mutSeq /\ lastMutation'.name = "updateContact"
                        /\ ~lastMutation'.dbFailed
                        /\ SetClause(lastMutation'.input) # {})
         => UpdateContactAsStated(contacts, contacts', lastMutation')]_vars

\* C14: after a cancelCall mutation that found the call (answered true),
\* the voice platform was asked to cancel the call and the call row's
\* status is 'cancelled'.
C14_CancelOnPlatformAndLocally ==
    (/\ lastMutation.name = "cancelCall"
     /\ lastMutation.result = "returned"
     /\ lastMutation.value) =>
        \E call \in voiceCalls :
           /\ call.id = lastMutation.id
           /\ call.status = "cancelled"
           /\ call.external_call_id # NoId =>
                 call.external_call_id \in vapiCancels

(***************************************************************************)
(* Claims about the WebSocket clients                                      *)
(***************************************************************************)

\* C15: a socket that reached the connection handler presented a token the
\* auth service verified to a principal; it is in exactly the room of that
\* principal's organization; and every event relayed for a socket went to
\* the room of the socket's own organization.
C15_SocketsInOwnOrganizationRoom ==
    /\ \A s \in SocketIds :
          sockets[s].state \in {"connected", "disconnected"} =>
             /\ sockets[s].token = "valid"
             /\ sockets[s].auth \in Principals
             /\ sockets[s].state = "connected" =>
                   sockets[s].rooms = {OrgRoom(sockets[s].auth.organizationId)}
    /\ \A relayed \in wsRelayed :
          /\ sockets[relayed.from].auth \in Principals
          /\ relayed.room = OrgRoom(sockets[relayed.from].auth.organizationId)

\* C15 witness: a connected socket of org1 has sent an event that names
\* org2, while a socket of org2 is connected and another client was
\* rejected.
C15_Witness ==
    /\ \E relayed \in wsRelayed :
          /\ sockets[relayed.from].auth.organizationId = "org1"
          /\ relayed.data.organizationId = "org2"
    /\ \E s \in SocketIds :
          sockets[s].state = "connected" /\ sockets[s].auth.organizationId = "org2"

(***************************************************************************)
(* Claims about the startup                                                *)
(***************************************************************************)

\* C16: the server listens only after the database connected with the
\* nexuscrm schema present and with the auth service and the postgres store
\* of the search/graph service healthy; when these hold, the health check
\* does not end the process, and the mode is degraded exactly when some
\* service is unhealthy.
C16_StartupFailsFast ==
    /\ startup.pc = "listening" =>
          /\ startup.db = "ok"
          /\ startup.health.auth
          /\ startup.health.graphRAG.postgres
    /\ startup.db \in {"connect failed", "query failed", "schema missing"} =>
          startup.pc = "exited" /\ startup.exitedAt = "database"
    /\ startup.exitedAt = "health" =>
          ~startup.health.auth \/ ~startup.health.graphRAG.postgres
    /\ startup.pc \in {"initializing", "listening"} =>
          startup.mode = IF AllHealthy(startup.health)
                         THEN "healthy" ELSE "degraded"

\* C16 witness: the server listens in degraded mode, with the auth service
\* and postgres healthy and the reasoning and geo services unhealthy.
C16_Witness ==
    /\ startup.pc = "listening"
    /\ startup.mode = "degraded"
    /\ ~startup.health.mage
    /\ ~startup.health.geo
    /\ ~startup.health.graphRAG.neo4j

(***************************************************************************)
(* Claims about failures                                                   *)
(***************************************************************************)

\* C18: when the transcript analysis of a call.ended webhook fails,
\* updateCallStatus does not throw, the call row keeps the status the
\* update wrote, and the activity row correlated with the call has that
\* status as its call status.
C18_AnalysisFailureSwallowed ==
    lastHttp.analysis = "threw" =>
        LET vapiCallId == lastHttp.update.vapiCallId
        IN /\ ~lastHttp.updateThrew
           /\ \A call \in voiceCalls :
                 call.external_call_id = vapiCallId =>
                    call.status = lastHttp.update.status
           /\ \A activity \in activities :
                 MetadataIs(activity, "vapiCallId", vapiCallId) =>
                    activity.call_status = lastHttp.update.status

\* C18 witness: the analysis of a completed call failed, and the call row
\* and its activity row are completed and hold the transcript.
C18_Witness ==
    /\ lastHttp.analysis = "threw"
    /\ lastHttp.update.status = "completed"
    /\ \E call \in voiceCalls :
          /\ call.external_call_id = lastHttp.update.vapiCallId
          /\ call.status = "completed"
          /\ call.sentiment_overall = Null
    /\ \E activity \in activities :
          /\ MetadataIs(activity, "vapiCallId", lastHttp.update.vapiCallId)
          /\ activity.call_status = "completed"
          /\ activity.transcript = lastHttp.update.data.transcript

\* The call rows no makeCall is still working on.
SettledCalls ==
    {row \in voiceCalls :
        \A c \in Callers : voiceOps[c].pc \in {"dial", "saveId"} =>
                                voiceOps[c].callId # row.id}

C19_WebhooksLeaveUnsavedCalls ==
    \A row \in voiceCalls :
        row.external_call_id = NoId =>
           /\ row.status = "initiated"
           /\ \A activity \in activities :
                 ~MetadataIs(activity, "voiceCallId", row.id)

\* C20: when storeDocument throws in createContact, the mutation answers
\* with an error and the contact row the INSERT created is in the table,
\* live, as the INSERT returned it.
C20_StoreFailureKeepsRow ==
    (lastMutation.name = "createContact" /\ lastMutation.storeThrew) =>
        /\ lastMutation.result = "threw"
        /\ \E row \in contacts \cap createdRows :
              /\ row.id = lastMutation.id
              /\ row.organization_id = lastMutation.auth.organizationId
              /\ row.deleted_at = Null

\* C20 witness: storeDocument was called for a new contact and threw; the
\* mutation answered with an error and the table has one row more than the
\* seeded ones.
C20_Witness ==
    /\ lastMutation.name = "createContact"
    /\ lastMutation.storeCalled
    /\ lastMutation.storeThrew
    /\ lastMutation.result = "threw"
    /\ lastMutation.id \in storeCalls
    /\ Cardinality(contacts) > Cardinality(SeedContacts)

(***************************************************************************)
(* Claims about the orchestration client                                   *)
(***************************************************************************)

\* A step of the makeCall or launchCampaign mutation.
OrchestratedStep ==
    /\ mutSeq' # mutSeq
    /\ lastMutation'.name \in {"makeCall", "launchCampaign"}

\* The call and campaign rows a step wrote.
WrittenRows == (voiceCalls' \ voiceCalls) \cup (campaigns' \ campaigns)

\* C21 as stated: the orchestration call comes after the primary database
\* write, so when the orchestration call fails the write is committed.
C21_WriteCommittedBeforeOrchestration ==
    [][(OrchestratedStep /\ lastMutation'.failed = "execute")
          => WrittenRows # {}]_vars

\* C21 amended: in makeCall and launchCampaign the orchestration call comes
\* before the database write, which persists the returned execution id;
\* when the orchestration call fails nothing is written, and when the
\* write fails the execution has been started and its id is in no row.
C21_OrchestrationBeforeWrite ==
    [][OrchestratedStep =>
          /\ lastMutation'.failed = "execute" =>
                /\ WrittenRows = {}
                /\ activities' = activities
                /\ lastMutation'.executionId = NoId
                /\ lastMutation'.result = "threw"
          /\ \A row \in WrittenRows :
                /\ lastMutation'.executionId # NoId
                /\ row.orchestration_execution_id = lastMutation'.executionId
          /\ lastMutation'.failed \in {"insert call", "update"} =>
                /\ lastMutation'.executionId # NoId
                /\ WrittenRows = {}
                /\ lastMutation'.result = "threw"]_vars

\* C21 witness: a launchCampaign has persisted its execution id, and a
\* makeCall after it failed in the orchestration call and wrote no row.
C21_Witness ==
    /\ \E row \in campaigns : row.orchestration_execution_id # NoId
    /\ lastMutation.name = "makeCall"
    /\ lastMutation.failed = "execute"
    /\ voiceCalls = SeedVoiceCalls

(***************************************************************************)
(* Claims about the rows of call initiation                                *)
(***************************************************************************)

\* The activity rows call initiation created: those whose metadata holds a
\* voiceCallId.
CallActivities == {a \in activities : "voiceCallId" \in DOMAIN a}

\* C23: every activity row created by call initiation names in its
\* metadata exactly one existing voice_calls row, and no two such activity
\* rows name the same call.
C23_OneActivityPerCall ==
    \A a \in CallActivities :
       /\ Cardinality({row \in voiceCalls : row.id = a.voiceCallId}) = 1
       /\ \A b \in CallActivities : b.voiceCallId = a.voiceCallId => a = b

\* C23 witness: two makeCall mutations have each created a call row and
\* its activity row.
C23_Witness ==
    /\ Cardinality(CallActivities) = 3
    /\ Cardinality(voiceCalls) = 4
    /\ lastMutation.name = "makeCall"

\* C25: after a successful makeCall mutation the voice_calls row it
\* created has an external call id, by which updateCallStatus can match a
\* later webhook event to the row.
C25_MutationCallHasExternalId ==
    (lastMutation.name = "makeCall" /\ lastMutation.result = "returned")
       => \A row \in voiceCalls :
             row.id = lastMutation.id => row.external_call_id # NoId

(***************************************************************************)
(* Claims about the campaign mutations                                     *)
(***************************************************************************)

\* C27: pauseCampaign, resumeCampaign and cancelCampaign leave every
\* soft-deleted campaign row as it is, and called with the id of a
\* soft-deleted campaign they throw, as launchCampaign does.
C27_DeletedCampaignsUntouched ==
    [][(/\ mutSeq' # mutSeq
        /\ lastMutation'.name \in {"pauseCampaign", "resumeCampaign",
                                    "cancelCampaign"})
          => \A row \in campaigns :
                row.deleted_at # Null =>
                   /\ row \in campaigns'
                   /\ row.id = lastMutation'.id =>
                         lastMutation'.result = "threw"]_vars

(***************************************************************************)
(* Claims about enrichContact                                              *)
(***************************************************************************)

\* C26: the UPDATE of enrichContact changes no contact row whose
\* deleted_at is set, whatever deleteContact did between its awaits, and
\* enrichContact returns no such row.
C26_EnrichSkipsDeletedContacts ==
    [][\A s \in Sessions :
          (crmOps[s].pc = "fetched" /\ crmOps'[s].pc = "done") =>
             /\ \A row \in contacts : row.deleted_at # Null => row \in contacts'
             /\ \A row \in crmOps'[s].returned : row.deleted_at = Null]_vars

(***************************************************************************)
(* Claims about contactsCount                                              *)
(***************************************************************************)

\* C28: for every contact filter, contactsCount(filter) is the number of
\* rows contacts(filter) returns for the same principal with offset 0 and a
\* limit no smaller than the table.
C28_CountEqualsListLength ==
    [][(lastList' # lastList /\ lastList'.resolver = "contactsCount") =>
          lastList'.count =
             Len(SelectPage(contacts', lastList'.auth,
                    {row \in contacts' : ContactsWhere(lastList'.filter, row)},
                    <<Cardinality(contacts')>>, <<0>>))]_vars

(***************************************************************************)
(* Claims about the shutdown                                               *)
(***************************************************************************)

\* C29: under concurrent db.disconnect() calls (SIGTERM and SIGINT both
\* received) pool.end() is called at most once and no disconnect fails.
C29_PoolEndedAtMostOnce ==
    /\ startup.poolEnds <= 1
    /\ startup.exitedAt # "disconnect"

(***************************************************************************)
(* Claims about the broadcasts of the webhook handlers                     *)
(***************************************************************************)

\* The event types that have a handler.
HandledEventTypes ==
    {"call.started", "call.answered", "call.ended", "call.failed",
     "function.called", "transcript.updated"}

\* C22: with the WebSocket manager initialized, after the handling of an
\* event of one of the six types for a known call, a broadcast has been
\* emitted to the room of the call's organization and to the room of the
\* call.
C22_KnownCallEventsBroadcast ==
    \A row \in voiceCalls :
       (/\ ioInstance # Null
        /\ lastHttp.handlerRan
        /\ lastHttp.raw.json
        /\ lastHttp.raw.content.type \in HandledEventTypes
        /\ row.external_call_id # NoId
        /\ row.external_call_id = lastHttp.raw.content.callId)
          => /\ \E e \in wsEmitted : e.room = OrgRoom(row.organization_id)
             /\ \E e \in wsEmitted : e.room = CallRoom(row.external_call_id)

\* C24: under every interleaving, a webhook event that carries the external
\* id of a call placed by makeCall finds the call's row: the id is saved
\* before the event is processed.
C24_WebhookFindsPlacedCall ==
    [][\A c \in Callers :
          (/\ lastHttp' # lastHttp
           /\ lastHttp'.handlerRan
           /\ voiceOps[c].vapiId # NoId
           /\ lastHttp'.raw.content.callId = voiceOps[c].vapiId)
             => lastHttp'.matched]_vars

====
